---- MODULE Spec2Model ----
(***************************************************************************)
(* A model of the magiceye stereogram pipeline: the SIRDS generator        *)
(* (lib/SIRDSGenerator.h), the depth map generator                         *)
(* (lib/DepthMapGenerator.h, lib/Camera.h) and the orchestrator            *)
(* (lib/StereogramGenerator.h).                                            *)
(*                                                                         *)
(* Numbers.  A C++ float v is held as the integer v*Q (decimal fixed       *)
(* point); products and quotients are rescaled by Q.  Bytes are 0..255.    *)
(* A pixel of an RGB buffer is a triple <<r, g, b>>, so the buffer index   *)
(* idx = (y*width + x)*3 + c of the code is the pair (y*width + x, c+1).   *)
(***************************************************************************)
EXTENDS Integers, Sequences, FiniteSets, TLC

\* ------------------------------------------------------------------------
\* Bounds of the model
\* ------------------------------------------------------------------------
Width == 5
Height == 3

\* ------------------------------------------------------------------------
\* Fixed-point arithmetic
\* ------------------------------------------------------------------------
Q == 10 * 10 * 10

\* a null pointer (of any pointee type)
NULL == [null |-> TRUE]

Abs(v) == IF v < 0 THEN 0 - v ELSE v

Min2(a, b) == IF a < b THEN a ELSE b

Max2(a, b) == IF a < b THEN b ELSE a

\* integer quotient rounded toward zero, as C++ rounds
SDiv(n, d) ==
    IF (n < 0) = (d < 0) THEN Abs(n) \div Abs(d) ELSE 0 - (Abs(n) \div Abs(d))

\* a * b and a / b for two fixed-point numbers
MulQ(a, b) == SDiv(a * b, Q)

DivQ(a, b) == SDiv(a * Q, b)

RECURSIVE IsqrtB(_, _, _)
IsqrtB(n, lo, hi) ==
    IF lo >= hi THEN lo
    ELSE LET mid == (lo + hi + 1) \div 2
         IN  IF mid * mid <= n THEN IsqrtB(n, mid, hi) ELSE IsqrtB(n, lo, mid - 1)

\* sqrt of a fixed-point number b >= 0: sqrt(b/Q)*Q = sqrt(b*Q)
SqrtQ(b) == IsqrtB(b * Q, 0, 2 * Q)

RECURSIVE PowInt(_, _)
PowInt(b, k) == IF k <= 0 THEN Q ELSE MulQ(b, PowInt(b, k - 1))

\* pow(b, g) for a fixed-point base b >= 0 and an exponent g that is a
\* multiple of one half: b^(k/2) = b^(k div 2) * sqrt(b)^(k mod 2)
PowQ(b, g) ==
    LET k == g \div (Q \div 2)
    IN  MulQ(PowInt(b, k \div 2), IF k % 2 = 1 THEN SqrtQ(b) ELSE Q)

\* std::round of a fixed-point number: to nearest, halves away from zero
RoundQ(v) == IF v >= 0 THEN (v + Q \div 2) \div Q ELSE 0 - ((Q \div 2 - v) \div Q)

\* static_cast<int> / static_cast<uint8_t> of an in-range fixed-point number
TruncQ(v) == IF v >= 0 THEN v \div Q ELSE 0 - ((0 - v) \div Q)

\* ------------------------------------------------------------------------
\* Build-dependent outcomes of undefined behaviour
\* ------------------------------------------------------------------------
\* std::clamp(v, lo, hi) is undefined for hi < lo; the standard library
\* implementations then return different bounds: libstdc++ computes
\* min(max(v, lo), hi), libc++ tests v < lo first, MSVC tests hi < v first.
\* static_cast<uint8_t>(float) is undefined above 255; the conversion either
\* keeps the low byte of the truncated integer or saturates.
\* One build resolves each of them one way.  The variable build records the
\* resolution from the first time the program's behaviour depends on it.
ClampImpls == {"min_max", "lo_first", "hi_first"}

CastImpls == {"wrap", "saturate"}

Unresolved == [clamp |-> "unresolved", cast |-> "unresolved"]

stdClamp(v, lo, hi, impl) ==
    IF lo <= hi THEN Max2(lo, Min2(v, hi))
    ELSE CASE impl = "min_max"  -> Min2(Max2(v, lo), hi)
           [] impl = "lo_first" -> IF v < lo THEN lo ELSE IF hi < v THEN hi ELSE v
           [] impl = "hi_first" -> IF hi < v THEN hi ELSE IF v < lo THEN lo ELSE v

castU8(v, impl) ==
    IF v >= 0 /\ v <= 255 THEN v
    ELSE IF impl = "wrap" THEN v % 256 ELSE IF v < 0 THEN 0 ELSE 255

\* ------------------------------------------------------------------------
\* SIRDSGenerator::UnionFind
\* ------------------------------------------------------------------------
Cols == 0 .. (Width - 1)

Rows == 0 .. (Height - 1)

Pixels == 0 .. (Width * Height - 1)

\* UnionFind::reset(n)
reset(n) == [i \in 0 .. (n - 1) |-> i]

\* the value returned by UnionFind::find(x)
RECURSIVE findRoot(_, _)
findRoot(parent, x) == IF parent[x] = x THEN x ELSE findRoot(parent, parent[x])

\* the elements visited by find(x)
RECURSIVE findPath(_, _)
findPath(parent, x) == IF parent[x] = x THEN {x} ELSE {x} \cup findPath(parent, parent[x])

\* find with every visited element made its own parent
findDetach(parent, x) ==
    LET r == findRoot(parent, x)
        path == findPath(parent, x)
    IN  [i \in DOMAIN parent |-> IF i \in path THEN i ELSE parent[i]]

\* the parent array after UnionFind::find(x): path compression
find(parent, x) ==
    LET r == findRoot(parent, x)
        path == findPath(parent, x)
    IN  [i \in DOMAIN parent |-> IF i \in path THEN r ELSE parent[i]]

uniteNoFind(parent, a, b) ==
    LET p1 == find(parent, a)
        p2 == find(p1, b)
        ra == findRoot(parent, a)
    IN  IF ra # b THEN [p2 EXCEPT ![b] = ra] ELSE p2

\* the parent array after UnionFind::unite(a, b)
unite(parent, a, b) ==
    LET p1 == find(parent, a)
        ra == findRoot(parent, a)
        p2 == find(p1, b)
        rb == findRoot(p1, b)
    IN  IF ra # rb THEN [p2 EXCEPT ![rb] = ra] ELSE p2

\* ------------------------------------------------------------------------
\* SIRDSGenerator: depth adjustment and separation field
\* ------------------------------------------------------------------------
min_separation == 3

focus_depth == Q \div 2

\* adjustDepthRange: adjusted_depth[i] = depth[i] * (1.0f - bg_separation)
adjustDepthRange(depth, bg_separation) ==
    [i \in DOMAIN depth |-> MulQ(depth[i], Q - bg_separation)]

\* the separation without the final clamp
separationUnclamped(d, eye_separation, depth_gamma, impl) ==
    LET t == PowQ(Abs(d - focus_depth) * 2, Q + Q \div 2)
        sep_scale == Q + t \div 2
        sep_float == min_separation * Q
                     + MulQ((eye_separation - min_separation) * PowQ(Q - d, depth_gamma),
                            sep_scale)
    IN  RoundQ(sep_float)

\* one entry of calculateSeparationMap, for adjusted depth d
separation(d, eye_separation, depth_gamma, impl) ==
    LET t == PowQ(Abs(d - focus_depth) * 2, Q + Q \div 2)
        sep_scale == Q + t \div 2
        sep_float == min_separation * Q
                     + MulQ((eye_separation - min_separation) * PowQ(Q - d, depth_gamma),
                            sep_scale)
    IN  stdClamp(RoundQ(sep_float), min_separation, eye_separation, impl)

calculateSeparationMap(adjusted_depth, eye_separation, depth_gamma, impl) ==
    [i \in DOMAIN adjusted_depth |->
        separation(adjusted_depth[i], eye_separation, depth_gamma, impl)]
\* ------------------------------------------------------------------------
\* SIRDSGenerator::buildUnions, one iteration of its loop over x
\* ------------------------------------------------------------------------
\* buildUnions without its last statement, the unite of the two eye positions
unitePairsForegroundOnly(y, x, adjusted_depth, separation_map, foreground_threshold) ==
    LET sep == separation_map[y * Width + x]
        left == x - sep \div 2
        right == left + sep
        d == adjusted_depth[y * Width + x]
    IN  IF left >= 0 /\ right < Width /\ d > foreground_threshold /\ x > 0
        THEN << <<x - 1, x>> >>
        ELSE << >>

\* the pairs handed to uf.unite by column x, in call order
unitePairs(y, x, adjusted_depth, separation_map, foreground_threshold) ==
    LET sep == separation_map[y * Width + x]
        left == x - sep \div 2
        right == left + sep
        d == adjusted_depth[y * Width + x]
    IN  IF left >= 0 /\ right < Width
        THEN (IF d > foreground_threshold /\ x > 0 THEN << <<x - 1, x>> >> ELSE << >>)
             \o << <<left, right>> >>
        ELSE << >>

RECURSIVE uniteAll(_, _)
uniteAll(parent, pairs) ==
    IF pairs = << >> THEN parent
    ELSE uniteAll(unite(parent, Head(pairs)[1], Head(pairs)[2]), Tail(pairs))

buildUnionsColumn(parent, y, x, adjusted_depth, separation_map, foreground_threshold) ==
    uniteAll(parent, unitePairs(y, x, adjusted_depth, separation_map, foreground_threshold))

\* SIRDSGenerator::identifyRoots: find(x) for every x, with its compression
RECURSIVE findEach(_, _)
findEach(parent, x) ==
    IF x >= Width THEN parent ELSE findEach(find(parent, x), x + 1)

identifyRoots(parent) == [x \in Cols |-> findRoot(parent, x) = x]

\* ------------------------------------------------------------------------
\* TextureSampler::sampleBilinear and SIRDSGenerator::getTextureColor
\* ------------------------------------------------------------------------
Black == <<0, 0, 0>>

getTexel(tex, x, y, c) ==
    LET cx == Max2(0, Min2(x, tex.tw - 1))
        cy == Max2(0, Min2(y, tex.th - 1))
    IN  tex.data[(cy * tex.tw + cx) * tex.tchan + c]

sampleBilinear(tex, texX0, texY0) ==
    LET texX == Max2(0, Min2(texX0, (tex.tw - 1) * Q))
        texY == Max2(0, Min2(texY0, (tex.th - 1) * Q))
        fx0 == texX \div Q
        fy0 == texY \div Q
        fx == texX - fx0 * Q
        fy == texY - fy0 * Q
        x1 == Min2(fx0 + 1, tex.tw - 1)
        y1 == Min2(fy0 + 1, tex.th - 1)
        x0 == Max2(0, Min2(fx0, tex.tw - 1))
        y0 == Max2(0, Min2(fy0, tex.th - 1))
        chan(c) ==
            LET c00 == getTexel(tex, x0, y0, c)
                c10 == getTexel(tex, x1, y0, c)
                c01 == getTexel(tex, x0, y1, c)
                c11 == getTexel(tex, x1, y1, c)
                top == (Q - fx) * c00 + fx * c10
                bottom == (Q - fx) * c01 + fx * c11
                val == MulQ(Q - fy, top) + MulQ(fy, bottom)
            IN  TruncQ(Max2(0, Min2(val, 255 * Q)))
    IN  <<chan(0), chan(1), chan(2)>>

getTextureColor(x, y, tex, brightness, contrast) ==
    LET texX == x * ((tex.tw * Q) \div Width)
        texY == y * ((tex.th * Q) \div Height)
        color == sampleBilinear(tex, texX, texY)
        adjust(c) ==
            LET v0 == (c * Q) \div 255
                v1 == MulQ(v0 - Q \div 2, contrast) + Q \div 2
                v2 == MulQ(v1, brightness)
            IN  TruncQ(Max2(0, Min2(v2 * 255, 255 * Q)))
    IN  <<adjust(color[1]), adjust(color[2]), adjust(color[3])>>

\* ------------------------------------------------------------------------
\* std::mt19937 rng(123456) with std::uniform_int_distribution<int>(0, 255)
\* ------------------------------------------------------------------------
\* The generator is a fixed stream of bytes; its state is the number of
\* draws made since it was seeded.
rngSeed == 123456

distr(rng) == ((rng + 1) * 7919 + rngSeed) % 256

\* getRandomColor: three draws, left to right
getRandomColor(rng) == <<distr(rng), distr(rng + 1), distr(rng + 2)>>

\* ------------------------------------------------------------------------
\* SIRDSGenerator: colour assignment of one scanline
\* ------------------------------------------------------------------------
\* tryPropagateFromNeighbors for root x of row y.  identifyRoots has already
\* compressed every path, so the uf.find calls made here leave parent alone.
tryPropagateFromNeighbors(x, y, parent, is_root, rootColor, out_rgb) ==
    LET left_root == findRoot(parent, x - 1)
        above_root == findRoot(parent, x)
    IN  IF x > 0 /\ left_root # x /\ is_root[left_root]
        THEN [ok |-> TRUE, color |-> rootColor[left_root], from |-> "left"]
        ELSE IF y > 0 /\ above_root # x /\ is_root[above_root]
        THEN [ok |-> TRUE, color |-> out_rgb[(y - 1) * Width + x], from |-> "above"]
        ELSE IF x > 0 /\ y > 0 /\ left_root # x /\ is_root[left_root]
        THEN [ok |-> TRUE, color |-> out_rgb[(y - 1) * Width + (x - 1)], from |-> "diag"]
        ELSE [ok |-> FALSE, color |-> Black, from |-> "none"]

\* The body of the loop of assignColors for column x.  st holds rootColor,
\* the set of roots whose rootColor entry has been stored, and the generator.
assignColorsColumn(st, x, y, c, opts, adjusted_depth, parent, is_root, out_rgb) ==
    IF ~is_root[x] THEN st
    ELSE LET d == adjusted_depth[y * Width + x]
             prop == IF d > opts.foreground_threshold
                     THEN tryPropagateFromNeighbors(x, y, parent, is_root,
                                                    st.rootColor, out_rgb)
                     ELSE [ok |-> FALSE, color |-> Black, from |-> "none"]
             hasTex == c.texture.data # << >>
             color == IF hasTex
                      THEN getTextureColor(x, y, c.texture, c.texture_brightness,
                                           c.texture_contrast)
                      ELSE getRandomColor(st.rng)
         IN  IF prop.ok
             THEN st   \* the propagated colour is computed but never stored
             ELSE [rootColor |-> [st.rootColor EXCEPT ![x] = color],
                   stored |-> st.stored \cup {x},
                   rng |-> IF hasTex THEN st.rng ELSE st.rng + 3]

RECURSIVE assignColorsFrom(_, _, _, _, _, _, _, _, _)
assignColorsFrom(st, x, y, c, opts, adjusted_depth, parent, is_root, out_rgb) ==
    IF x >= Width THEN st
    ELSE assignColorsFrom(
            assignColorsColumn(st, x, y, c, opts, adjusted_depth, parent, is_root, out_rgb),
            x + 1, y, c, opts, adjusted_depth, parent, is_root, out_rgb)

\* assignColors: rootColor starts value-initialised (all zero), nothing stored
assignColors(y, c, opts, adjusted_depth, parent, is_root, out_rgb, rng0) ==
    assignColorsFrom([rootColor |-> [x \in Cols |-> Black], stored |-> {}, rng |-> rng0],
                     0, y, c, opts, adjusted_depth, parent, is_root, out_rgb)

applyColorsOwnEntry(y, parent, rootColor, out_rgb) ==
    [i \in DOMAIN out_rgb |->
        IF i \div Width = y THEN rootColor[i % Width] ELSE out_rgb[i]]

\* applyColors: every pixel of row y takes rootColor[find(x)]
applyColors(y, parent, rootColor, out_rgb) ==
    [i \in DOMAIN out_rgb |->
        IF i \div Width = y THEN rootColor[findRoot(parent, i % Width)] ELSE out_rgb[i]]

\* SIRDSGenerator::buildUnions: the loop over x, from column x on
RECURSIVE buildUnionsFrom(_, _, _, _, _, _)
buildUnionsFrom(parent, y, x, adjusted_depth, separation_map, foreground_threshold) ==
    IF x >= Width THEN parent
    ELSE buildUnionsFrom(
            buildUnionsColumn(parent, y, x, adjusted_depth, separation_map,
                              foreground_threshold),
            y, x + 1, adjusted_depth, separation_map, foreground_threshold)

\* SIRDSGenerator::processScanline on row y: the buffer and the generator
\* after the call that started with buffer out_rgb and generator rng0
processScanline(y, c, opts, adjusted_depth, separation_map, out_rgb, rng0) ==
    LET flat == findEach(buildUnionsFrom(reset(Width), y, 0, adjusted_depth,
                                         separation_map, opts.foreground_threshold), 0)
        is_root == identifyRoots(flat)
        st == assignColors(y, c, opts, adjusted_depth, flat, is_root, out_rgb, rng0)
    IN  [out_rgb |-> applyColors(y, flat, st.rootColor, out_rgb), rng |-> st.rng]

\* ------------------------------------------------------------------------
\* SIRDSGenerator::applyEdgeSmoothing / smoothPixel
\* ------------------------------------------------------------------------
smoothPixelSized(x, y, width, out_rgb, smoothWeight, impl) ==
    LET idx == y * width + x
        chan(c) ==
            LET sum == out_rgb[idx][c] * 6
                       + out_rgb[(y - 1) * width + x][c]
                       + out_rgb[(y + 1) * width + x][c]
                       + out_rgb[y * width + (x - 1)][c]
                       + out_rgb[y * width + (x + 1)][c]
                       + out_rgb[(y - 1) * width + (x - 1)][c]
                       + out_rgb[(y + 1) * width + (x + 1)][c]
            IN  castU8((sum * Q) \div smoothWeight, impl)
    IN  [out_rgb EXCEPT ![idx] = <<chan(1), chan(2), chan(3)>>]

\* applyEdgeSmoothing with every interior pixel taken, whatever its depth
smoothedIgnoringDepth(adjusted_depth, smoothThreshold, width, height, i) ==
    LET px == i % width
        py == i \div width
    IN  /\ py >= 1 /\ py < height - 1
        /\ px >= 1 /\ px < width - 1

\* the pixels smoothPixel is applied to in an image of width x height pixels
smoothedSized(adjusted_depth, smoothThreshold, width, height, i) ==
    LET px == i % width
        py == i \div width
    IN  /\ py >= 1 /\ py < height - 1
        /\ px >= 1 /\ px < width - 1
        /\ adjusted_depth[i] > smoothThreshold

\* the double loop of applyEdgeSmoothing, in place and in row-major order
RECURSIVE applyEdgeSmoothingSizedFrom(_, _, _, _, _, _, _)
applyEdgeSmoothingSizedFrom(i, adjusted_depth, out_rgb, width, height, opts, impl) ==
    IF i >= width * height THEN out_rgb
    ELSE applyEdgeSmoothingSizedFrom(i + 1, adjusted_depth,
            IF smoothedSized(adjusted_depth, opts.smoothThreshold, width, height, i)
            THEN smoothPixelSized(i % width, i \div width, width, out_rgb,
                                  opts.smoothWeight, impl)
            ELSE out_rgb,
            width, height, opts, impl)

applyEdgeSmoothingSized(adjusted_depth, out_rgb, width, height, opts, impl) ==
    applyEdgeSmoothingSizedFrom(0, adjusted_depth, out_rgb, width, height, opts, impl)

\* smoothPixel and applyEdgeSmoothing on the Width x Height image of generate
smoothPixel(x, y, out_rgb, smoothWeight, impl) ==
    smoothPixelSized(x, y, Width, out_rgb, smoothWeight, impl)

smoothed(adjusted_depth, smoothThreshold, i) ==
    smoothedSized(adjusted_depth, smoothThreshold, Width, Height, i)

applyEdgeSmoothingFrom(i, adjusted_depth, out_rgb, opts, impl) ==
    applyEdgeSmoothingSizedFrom(i, adjusted_depth, out_rgb, Width, Height, opts, impl)

applyEdgeSmoothing(adjusted_depth, out_rgb, opts, impl) ==
    applyEdgeSmoothingSized(adjusted_depth, out_rgb, Width, Height, opts, impl)

\* ------------------------------------------------------------------------
\* State
\* ------------------------------------------------------------------------
VARIABLES
    build,            \* how this build resolves the undefined operations
    call,             \* the arguments of the running (or last) generate call
    options,          \* static std::shared_ptr<Options> SIRDSGenerator::options
    pc,               \* position in SIRDSGenerator::generate
    adjusted_depth,   \* generateUnionFind: adjusted_depth
    separation_map,   \* generateUnionFind: separation_map
    out_rgb,          \* the caller's output buffer
    rng,              \* generateUnionFind: rng, as the number of draws made
    parent,           \* UnionFind::parent of uf
    y,                \* generateUnionFind: loop variable y
    x,                \* buildUnions: loop variable x
    links,            \* history: the pairs given to unite since the last reset
    rowClass,         \* history: for every finished row, find(x) of each x
    rowStored,        \* history: for every finished row, the roots with a stored rootColor
    outBefore,        \* history: out_rgb as the caller passed it to the running call
    firstCall,        \* history: the arguments of the first call that returned
    firstOut,         \* history: the buffer that call returned
    othersSince,      \* history: a call with other arguments has returned since
    sepIn,            \* calculateSeparationMap on one pixel: its inputs
    sepOut,           \* calculateSeparationMap on one pixel: its result
    depthCall,        \* the arguments of the DepthMapGenerator::generate call
    t,                \* DepthMapGenerator::generate: loop variable t
    zbuffer,          \* DepthMapGenerator::generate: zbuffer
    depthPc,          \* position in DepthMapGenerator::generate
    depthRet,         \* what DepthMapGenerator::generate returned
    clipLog,          \* history: for every triangle, what clipping made of it
    createOptions,    \* StereogramGenerator::options
    createPc,         \* position in StereogramGenerator::create
    createSteps,      \* history: the collaborators create has called
    files,            \* the output files written, by suffix of outprefix
    createResult,     \* how create ended
    ufOp,             \* the last operation on a UnionFind used on its own
    mesh,             \* the stl mesh: m_vectors and m_num_triangles
    meshPc,           \* which mesh operation of the pipeline comes next
    meshOp,           \* the last mesh operation and the mesh before it
    focus,            \* a call of SeparationCalibrator::estimateFocusDepth
    noise,            \* the calls of BlueNoise::generateRGB made so far
    sample,           \* a pair of calls of TextureSampler::sampleBilinearTiled
    smooth,           \* a call of SIRDSGenerator::applyEdgeSmoothing on an image of its own
    variant,          \* which main.cpp is running: gui/ or andriod_opengl/
    heap,             \* the Options objects: the live one and every render's copy
    uiPc,             \* MainLoopStep: the part of the frame that runs next
    viewport_open,    \* main: viewport_open
    popup_open,       \* ImGui: the "Render error" popup is open
    crashed,          \* the process has ended in std::terminate
    g_is_rendering,   \* std::atomic<bool> g_is_rendering
    g_has_result,     \* bool g_has_result
    g_prev_render,    \* bool g_prev_render
    g_render_error_pending,  \* std::atomic<bool> g_render_error_pending
    g_render_future,  \* std::future<bool> g_render_future: the task it refers to, 0 if none
    g_rendered_image_path,   \* std::string g_rendered_image_path
    g_rendered_depth_path,   \* std::string g_rendered_depth_path
    g_render_error_msg,      \* std::string g_render_error_msg
    workers,          \* the std::async tasks launched so far
    racyReads         \* history: the strings read while a task could still write them

sirdsVars ==
    <<build, call, options, pc, adjusted_depth, separation_map, out_rgb, rng,
      parent, y, x, links, rowClass, rowStored, outBefore, firstCall, firstOut,
      othersSince>>

sepVars == <<sepIn, sepOut>>

depthVars == <<depthCall, t, zbuffer, depthPc, depthRet, clipLog>>

createVars == <<createOptions, createPc, createSteps, files, createResult>>

\* the state of the classes and functions of lib/ exercised on their own
meshVars == <<mesh, meshPc, meshOp>>

guiVars ==
    <<variant, heap, uiPc, viewport_open, popup_open, crashed, g_is_rendering,
      g_has_result, g_prev_render, g_render_error_pending, g_render_future,
      g_rendered_image_path, g_rendered_depth_path, g_render_error_msg, workers, racyReads>>

\* the calls of the stateless functions of lib/
pureVars == <<focus, noise, sample>>

\* one call of SIRDSGenerator::applyEdgeSmoothing, and the GUI application
appVars == <<smooth, guiVars>>

libVars == <<ufOp, meshVars, pureVars, appVars>>

vars == <<sirdsVars, sepVars, depthVars, createVars, libVars>>

\* ------------------------------------------------------------------------
\* Inputs of SIRDSGenerator::generate
\* ------------------------------------------------------------------------
\* a depth map with foreground value fg on columns a..b of row r, bg elsewhere
stripDepth(a, b, r, fg, bg) ==
    [i \in Pixels |->
        IF (i % Width) \in a .. b /\ (i \div Width) = r THEN fg ELSE bg]

\* row r at depth fg except for column c, every other pixel at depth bg
holeDepth(c, r, fg, bg) ==
    [i \in Pixels |->
        IF (i \div Width) = r /\ (i % Width) # c THEN fg ELSE bg]

DepthMaps ==
    { stripDepth(a, b, r, Q, bg) : a \in Cols, b \in Cols, r \in Rows, bg \in {0, Q \div 2} }
        \cup { holeDepth(c, r, Q, bg) : c \in Cols, r \in Rows, bg \in {0, Q \div 2} }

NoTexture == [data |-> << >>, tw |-> 0, th |-> 0, tchan |-> 0]

\* a 2 x 2 RGB texture: red, green / blue, white
Texture2x2 ==
    [data |-> [i \in 0 .. 11 |->
                  <<255, 0, 0,  0, 255, 0,  0, 0, 255,  255, 255, 255>>[i + 1]],
     tw |-> 2, th |-> 2, tchan |-> 3]

\* Options as shipped (lib/Options.h) and a second setting of the same knobs
OptionsDefault ==
    [depth_gamma |-> Q, foreground_threshold |-> (9 * Q) \div 10,
     smoothThreshold |-> (3 * Q) \div 4, smoothWeight |-> 6 * Q]

OptionsSoft ==
    [depth_gamma |-> 2 * Q, foreground_threshold |-> Q \div 2,
     smoothThreshold |-> Q \div 4, smoothWeight |-> 12 * Q]

EyeSeparations == {2, 4}

Calls ==
    [depth : DepthMaps, eye_separation : EyeSeparations,
     texture : {NoTexture, Texture2x2},
     texture_brightness : {Q}, texture_contrast : {Q}, bg_separation : {0},
     opt : {OptionsDefault, OptionsSoft, NULL}]

\* ------------------------------------------------------------------------
\* SIRDSGenerator::generate
\* ------------------------------------------------------------------------
\* the ways this build may resolve std::clamp(v, min_separation, eye_separation)
clampOutcomes(b, eye_separation) ==
    IF eye_separation >= min_separation \/ b.clamp # "unresolved"
    THEN {b.clamp}
    ELSE ClampImpls

\* the ways this build may resolve the casts of applyEdgeSmoothing: one way
\* once resolved, and no choice to make while every cast is in range
castOutcomes(b, adjusted, out, opts) ==
    IF b.cast # "unresolved" THEN {b.cast}
    ELSE IF \A i \in CastImpls : \A j \in CastImpls :
               applyEdgeSmoothing(adjusted, out, opts, i)
                   = applyEdgeSmoothing(adjusted, out, opts, j)
    THEN {b.cast}
    ELSE CastImpls

\* the generator as seeded at the start of generateUnionFind
rngCarried(rng0) == rng0

rngSeeded(rng0) == 0

\* generate up to the scanline loop: options = opt, then steps 1-5 of
\* generateUnionFind.  calculateSeparationMap reads options->depth_gamma; with
\* a null pointer the read faults, after out_rgb.assign has run.
generate(c, buf) ==
    /\ pc = "idle"
    /\ call' = c
    /\ options' = c.opt
    /\ adjusted_depth' = adjustDepthRange(c.depth, c.bg_separation)
    /\ out_rgb' = [i \in Pixels |-> Black]
    /\ rng' = rngSeeded(rng)
    /\ parent' = reset(Width)
    /\ y' = 0
    /\ x' = 0
    /\ links' = {}
    /\ rowClass' = << >>
    /\ rowStored' = << >>
    /\ outBefore' = buf
    /\ IF c.opt = NULL
       THEN /\ pc' = "crashed"
            /\ separation_map' = << >>
            /\ build' = build
       ELSE /\ pc' = IF Height > 0 THEN "row" ELSE "smooth"
            /\ \E impl \in clampOutcomes(build, c.eye_separation) :
                  /\ separation_map' = calculateSeparationMap(adjusted_depth',
                                            c.eye_separation, c.opt.depth_gamma, impl)
                  /\ build' = [build EXCEPT !.clamp = impl]
    /\ UNCHANGED <<firstCall, firstOut, othersSince, sepVars, depthVars, createVars, libVars>>

\* processScanline: uf.reset(width)
processScanline_reset ==
    /\ pc = "row"
    /\ parent' = reset(Width)
    /\ links' = {}
    /\ x' = 0
    /\ pc' = "build"
    /\ UNCHANGED <<build, call, options, adjusted_depth, separation_map, out_rgb, rng,
                   y, rowClass, rowStored, outBefore, firstCall, firstOut, othersSince,
                   sepVars, depthVars, createVars, libVars>>

\* buildUnions: one iteration of the loop over x
buildUnions_step ==
    /\ pc = "build"
    /\ x < Width
    /\ LET pairs == unitePairs(y, x, adjusted_depth, separation_map,
                               options.foreground_threshold)
       IN  /\ parent' = buildUnionsColumn(parent, y, x, adjusted_depth, separation_map,
                                          options.foreground_threshold)
           /\ links' = links \cup { {pairs[k][1], pairs[k][2]} : k \in DOMAIN pairs }
    /\ x' = x + 1
    /\ UNCHANGED <<build, call, options, pc, adjusted_depth, separation_map, out_rgb, rng,
                   y, rowClass, rowStored, outBefore, firstCall, firstOut, othersSince,
                   sepVars, depthVars, createVars, libVars>>

\* processScanline after buildUnions: identifyRoots, assignColors, applyColors,
\* and the ++y of the loop in generateUnionFind
processScanline_color ==
    /\ pc = "build"
    /\ x >= Width
    /\ LET flat == findEach(parent, 0)
           is_root == identifyRoots(parent)
           st == assignColors(y, call, options, adjusted_depth, flat, is_root, out_rgb, rng)
       IN  /\ parent' = flat
           /\ rng' = st.rng
           /\ out_rgb' = applyColors(y, flat, st.rootColor, out_rgb)
           /\ rowClass' = Append(rowClass, flat)
           /\ rowStored' = Append(rowStored, st.stored)
    /\ y' = y + 1
    /\ pc' = IF y + 1 < Height THEN "row" ELSE "smooth"
    /\ UNCHANGED <<build, call, options, adjusted_depth, separation_map, x, links,
                   outBefore, firstCall, firstOut, othersSince, sepVars, depthVars, createVars, libVars>>

\* generateUnionFind step 7
applyEdgeSmoothing_run ==
    /\ pc = "smooth"
    /\ \E impl \in castOutcomes(build, adjusted_depth, out_rgb, options) :
          /\ out_rgb' = applyEdgeSmoothing(adjusted_depth, out_rgb, options, impl)
          /\ build' = [build EXCEPT !.cast = impl]
    /\ pc' = "done"
    /\ UNCHANGED <<call, options, adjusted_depth, separation_map, rng, parent,
                   y, x, links, rowClass, rowStored, outBefore, firstCall, firstOut,
                   othersSince, sepVars, depthVars, createVars, libVars>>

\* generate returns to its caller
generate_return ==
    /\ pc = "done"
    /\ pc' = "idle"
    /\ firstCall' = IF firstCall = NULL THEN call ELSE firstCall
    /\ firstOut' = IF firstCall = NULL THEN out_rgb ELSE firstOut
    /\ othersSince' = (firstCall # NULL /\ (othersSince \/ call # firstCall))
    /\ UNCHANGED <<build, call, options, adjusted_depth, separation_map, out_rgb, rng,
                   parent, y, x, links, rowClass, rowStored, outBefore, sepVars, depthVars, createVars, libVars>>

\* no generate call has been made
sirdsIdle ==
    /\ call = NULL
    /\ options = NULL
    /\ pc = "idle"
    /\ adjusted_depth = << >>
    /\ separation_map = << >>
    /\ out_rgb = << >>
    /\ rng = 0
    /\ parent = reset(0)
    /\ y = 0
    /\ x = 0
    /\ links = {}
    /\ rowClass = << >>
    /\ rowStored = << >>
    /\ outBefore = << >>
    /\ firstCall = NULL
    /\ firstOut = << >>
    /\ othersSince = FALSE

sepIdle ==
    /\ sepIn = NULL
    /\ sepOut = -1

\* DepthMapGenerator::generate is not running
depthIdle ==
    /\ depthCall = NULL
    /\ t = 0
    /\ zbuffer = << >>
    /\ depthPc = "idle"
    /\ depthRet = NULL
    /\ clipLog = << >>

\* StereogramGenerator::create is not running
createIdle ==
    /\ createOptions = NULL
    /\ createPc = "idle"
    /\ createSteps = {}
    /\ files = {}
    /\ createResult = "none"

\* no stl mesh is being built
meshIdle ==
    /\ mesh = [m_vectors |-> << >>, m_num_triangles |-> 0]
    /\ meshPc = "idle"
    /\ meshOp = NULL

\* no stateless function of lib/ has been called
pureIdle ==
    /\ focus = NULL
    /\ noise = NULL
    /\ sample = NULL

\* no class or function of lib/ has been exercised on its own
\* the GUI application has not been started
guiIdle ==
    /\ variant = "none"
    /\ heap = << >>
    /\ uiPc = "idle"
    /\ viewport_open = FALSE
    /\ popup_open = FALSE
    /\ crashed = FALSE
    /\ g_is_rendering = FALSE
    /\ g_has_result = FALSE
    /\ g_prev_render = FALSE
    /\ g_render_error_pending = FALSE
    /\ g_render_future = 0
    /\ g_rendered_image_path = << >>
    /\ g_rendered_depth_path = << >>
    /\ g_render_error_msg = << >>
    /\ workers = << >>
    /\ racyReads = {}

appIdle ==
    /\ smooth = NULL
    /\ guiIdle

libIdle ==
    /\ ufOp = NULL
    /\ meshIdle
    /\ pureIdle
    /\ appIdle

InitSirds ==
    /\ build = Unresolved
    /\ sirdsIdle
    /\ sepIdle
    /\ depthIdle
    /\ createIdle
    /\ libIdle

\* one call of generate with any of the inputs, on a fresh output vector
generateOnce ==
    /\ firstCall = NULL
    /\ \E c \in Calls : generate(c, << >>)

NextSirds ==
    \/ generateOnce
    \/ processScanline_reset
    \/ buildUnions_step
    \/ processScanline_color
    \/ applyEdgeSmoothing_run
    \/ generate_return

SpecSirds == InitSirds /\ [][NextSirds]_vars

\* ------------------------------------------------------------------------
\* Repeated calls of SIRDSGenerator::generate in one process
\* ------------------------------------------------------------------------
RepeatedCalls ==
    [depth : { stripDepth(1, b, 1, Q, 0) : b \in {0, 1, Width - 1} },
     eye_separation : {4},
     texture : {NoTexture, Texture2x2},
     texture_brightness : {Q}, texture_contrast : {Q}, bg_separation : {0},
     opt : {OptionsDefault}]

\* what the caller's vector may hold when it is passed in: nothing, or an
\* image of an earlier use
CallerBuffers == { << >>, [i \in Pixels |-> <<255, 255, 255>>] }

generateAgain == \E c \in RepeatedCalls : \E buf \in CallerBuffers : generate(c, buf)

NextCalls ==
    \/ generateAgain
    \/ processScanline_reset
    \/ buildUnions_step
    \/ processScanline_color
    \/ applyEdgeSmoothing_run
    \/ generate_return

SpecCalls == InitSirds /\ [][NextCalls]_vars

\* ------------------------------------------------------------------------
\* calculateSeparationMap on a single pixel, over a grid of inputs
\* ------------------------------------------------------------------------
DepthSteps == 10

MaxEyeSep == 8

SepInputs ==
    [d : { (k * Q) \div DepthSteps : k \in 0 .. DepthSteps },
     eye_separation : 0 .. MaxEyeSep,
     depth_gamma : { Q \div 2, Q, Q + Q \div 2, 2 * Q, 5 * Q }]

calculateSeparationMap_pixel ==
    /\ sepOut = -1
    /\ \E impl \in clampOutcomes(build, sepIn.eye_separation) :
          /\ sepOut' = separation(sepIn.d, sepIn.eye_separation, sepIn.depth_gamma, impl)
          /\ build' = [build EXCEPT !.clamp = impl]
    /\ UNCHANGED <<call, options, pc, adjusted_depth, separation_map, out_rgb, rng,
                   parent, y, x, links, rowClass, rowStored, outBefore, firstCall,
                   firstOut, othersSince, sepIn, depthVars, createVars, libVars>>

InitSep ==
    /\ build = Unresolved
    /\ sirdsIdle
    /\ sepIn \in SepInputs
    /\ sepOut = -1
    /\ depthIdle
    /\ createIdle
    /\ libIdle

NextSep == calculateSeparationMap_pixel

SpecSep == InitSep /\ [][NextSep]_vars

\* ------------------------------------------------------------------------
\* SIRDSGenerator::UnionFind under any sequence of reset, unite and find
\* ------------------------------------------------------------------------
UFSize == 4

UFElems == 0 .. (UFSize - 1)

\* everything of the generator but the union-find
ufOthers ==
    <<build, call, options, pc, adjusted_depth, separation_map, out_rgb, rng, y, x,
      links, rowClass, rowStored, outBefore, firstCall, firstOut, othersSince>>

UnionFind_reset ==
    /\ ufOp # NULL
    /\ parent' = reset(UFSize)
    /\ ufOp' = [op |-> "reset", a |-> UFSize, b |-> UFSize, before |-> parent]
    /\ UNCHANGED <<ufOthers, sepVars, depthVars, createVars, meshVars, pureVars, appVars>>

UnionFind_unite ==
    /\ ufOp # NULL
    /\ \E a \in UFElems : \E b \in UFElems :
          /\ parent' = unite(parent, a, b)
          /\ ufOp' = [op |-> "unite", a |-> a, b |-> b, before |-> parent]
    /\ UNCHANGED <<ufOthers, sepVars, depthVars, createVars, meshVars, pureVars, appVars>>

UnionFind_find ==
    /\ ufOp # NULL
    /\ \E a \in UFElems :
          /\ parent' = find(parent, a)
          /\ ufOp' = [op |-> "find", a |-> a, b |-> findRoot(parent, a), before |-> parent]
    /\ UNCHANGED <<ufOthers, sepVars, depthVars, createVars, meshVars, pureVars, appVars>>

\* UnionFind uf(UFSize) has been constructed
InitUF ==
    /\ build = Unresolved
    /\ call = NULL
    /\ options = NULL
    /\ pc = "idle"
    /\ adjusted_depth = << >>
    /\ separation_map = << >>
    /\ out_rgb = << >>
    /\ rng = 0
    /\ parent = reset(UFSize)
    /\ y = 0
    /\ x = 0
    /\ links = {}
    /\ rowClass = << >>
    /\ rowStored = << >>
    /\ outBefore = << >>
    /\ firstCall = NULL
    /\ firstOut = << >>
    /\ othersSince = FALSE
    /\ sepIdle
    /\ depthIdle
    /\ createIdle
    /\ appIdle
    /\ meshIdle
    /\ pureIdle
    /\ ufOp = [op |-> "reset", a |-> UFSize, b |-> UFSize, before |-> reset(UFSize)]

NextUF ==
    \/ UnionFind_reset
    \/ UnionFind_unite
    \/ UnionFind_find

SpecUF == InitUF /\ [][NextUF]_vars

\* ------------------------------------------------------------------------
\* Camera (lib/Camera.h)
\* ------------------------------------------------------------------------
\* Camera::kEpsilon = 1e-6, rounded up to one unit of the fixed point
kEpsilon == 1

\* glm::vec3 as a triple of fixed-point numbers
VSub(a, b) == <<a[1] - b[1], a[2] - b[2], a[3] - b[3]>>

Dot(a, b) == MulQ(a[1], b[1]) + MulQ(a[2], b[2]) + MulQ(a[3], b[3])

Cross(a, b) ==
    <<MulQ(a[2], b[3]) - MulQ(a[3], b[2]),
      MulQ(a[3], b[1]) - MulQ(a[1], b[3]),
      MulQ(a[1], b[2]) - MulQ(a[2], b[1])>>

VLength(a) == IsqrtB(a[1] * a[1] + a[2] * a[2] + a[3] * a[3], 0, 40 * Q)

Normalize(a) ==
    LET len == VLength(a)
    IN  <<DivQ(a[1], len), DivQ(a[2], len), DivQ(a[3], len)>>

\* Camera::computeBasis
computeBasis(cam) ==
    LET forward == Normalize(VSub(cam.look_at, cam.position))
        right == Normalize(Cross(forward, cam.up))
    IN  [forward |-> forward, right |-> right, up_cam |-> Cross(right, forward)]

\* std::tan(fov_rad * 0.5f) for the field of view of the cameras modelled
tanHalfFov(fov_deg) == CASE fov_deg = 90 -> Q

\* Camera::projectToNDC: ok is the returned bool
projectToNDC(p_cam, aspect, cam) ==
    LET zcam == p_cam[3]
        scale == tanHalfFov(cam.fov_deg)
    IN  IF zcam <= Max2(cam.near_plane, kEpsilon)
        THEN [ok |-> FALSE, ndc_x |-> 0, ndc_y |-> 0, zcam |-> zcam]
        ELSE IF cam.perspective
        THEN [ok |-> TRUE,
              ndc_x |-> DivQ(DivQ(p_cam[1], MulQ(zcam, scale)), aspect),
              ndc_y |-> DivQ(p_cam[2], MulQ(zcam, scale)),
              zcam |-> zcam]
        ELSE [ok |-> TRUE, ndc_x |-> p_cam[1], ndc_y |-> p_cam[2], zcam |-> zcam]

\* ------------------------------------------------------------------------
\* DepthMapGenerator (lib/DepthMapGenerator.h)
\* ------------------------------------------------------------------------
\* tolerance = 1e-8, rounded up to one unit of the fixed point
tolerance == 1

\* std::numeric_limits<float>::infinity()
INF == 2147483647

isfinite(v) == v # INF /\ v # 0 - INF

\* the lambdas of clipAgainstNearPlane
inside(v, znear) == v[3] >= znear

intersect(A, B, znear) ==
    LET tt == DivQ(znear - A[3], B[3] - A[3])
    IN  <<A[1] + MulQ(tt, B[1] - A[1]), A[2] + MulQ(tt, B[2] - A[2]), znear>>

\* the vertices clipAgainstNearPlane pushes for in[i], ..., in[n]
RECURSIVE clipFrom(_, _, _)
clipFrom(in, znear, i) ==
    IF i > Len(in) THEN << >>
    ELSE LET curr == in[i]
             prev == in[((i - 1 + Len(in) - 1) % Len(in)) + 1]
             Ic == inside(curr, znear)
             Ip == inside(prev, znear)
             pushed == IF Ic /\ Ip THEN <<curr>>
                       ELSE IF ~Ic /\ Ip THEN <<intersect(prev, curr, znear)>>
                       ELSE IF Ic /\ ~Ip THEN <<intersect(prev, curr, znear), curr>>
                       ELSE << >>
         IN  pushed \o clipFrom(in, znear, i + 1)

clipAgainstNearPlane(in, znear) == IF in = << >> THEN << >> ELSE clipFrom(in, znear, 1)

triangulateConvexFan(poly) ==
    IF Len(poly) < 3 THEN << >>
    ELSE [i \in 1 .. (Len(poly) - 2) |-> <<poly[1], poly[i + 1], poly[i + 2]>>]

\* generate, lines 104-111: a world triangle in camera space
toCamera(vworld, cam) ==
    LET basis == computeBasis(cam)
    IN  [i \in 1 .. 3 |->
            LET rel == VSub(vworld[i], cam.position)
            IN  <<Dot(rel, basis.right), Dot(rel, basis.up_cam), Dot(rel, basis.forward)>>]

\* generate, lines 113-121: the triangles rasterized for one world triangle
clippedTris(vworld, cam) ==
    LET znear == Max2(cam.near_plane, kEpsilon)
        triPoly == clipAgainstNearPlane(toCamera(vworld, cam), znear)
    IN  IF Len(triPoly) < 3 THEN << >> ELSE triangulateConvexFan(triPoly)

\* generate, line 89
aspectOf(width, height) == DivQ(width * Q, Max2(1, height) * Q)

\* std::floor and std::ceil of a fixed-point number, as an int
FloorQ(v) == v \div Q

CeilQ(v) == 0 - ((0 - v) \div Q)

\* processTriangle, lines 145-155: the projection of the three vertices
projectVertices(tri_cam, cam, aspect, ortho_scale) ==
    [i \in 1 .. 3 |->
        LET p_for_ndc == IF cam.perspective THEN tri_cam[i]
                         ELSE <<DivQ(tri_cam[i][1], MulQ(ortho_scale, aspect)),
                                DivQ(tri_cam[i][2], ortho_scale),
                                tri_cam[i][3]>>
        IN  projectToNDC(p_for_ndc, aspect, cam)]

\* processTriangle, lines 145-198: the fragments of a triangle that pass the
\* inside test, each with its pixel index and interpolated depth.  The
\* barycentric coordinates are computed as num / denom: in fixed point
\* num * (1 / denom) would lose the digits a float keeps.
insideFragments(tri_cam, cam, aspect, ortho_scale) ==
    LET proj == projectVertices(tri_cam, cam, aspect, ortho_scale)
    IN  IF \E i \in 1 .. 3 : ~proj[i].ok THEN {}
        ELSE
        LET invz == [i \in 1 .. 3 |-> DivQ(Q, Max2(proj[i].zcam, kEpsilon))]
            clx == [i \in 1 .. 3 |-> Max2(0 - Q, Min2(Q, proj[i].ndc_x))]
            cly == [i \in 1 .. 3 |-> Max2(0 - Q, Min2(Q, proj[i].ndc_y))]
            px == [i \in 1 .. 3 |-> MulQ(SDiv(clx[i], 2) + Q \div 2, (Width - 1) * Q)]
            py == [i \in 1 .. 3 |-> MulQ(SDiv(0 - cly[i], 2) + Q \div 2, (Height - 1) * Q)]
            minx == Max2(0, FloorQ(Min2(px[1], Min2(px[2], px[3]))))
            maxx == Min2(Width - 1, CeilQ(Max2(px[1], Max2(px[2], px[3]))))
            miny == Max2(0, FloorQ(Min2(py[1], Min2(py[2], py[3]))))
            maxy == Min2(Height - 1, CeilQ(Max2(py[1], Max2(py[2], py[3]))))
            denom == MulQ(py[2] - py[3], px[1] - px[3]) + MulQ(px[3] - px[2], py[1] - py[3])
            cx(xx) == xx * Q + Q \div 2
            cy(yy) == yy * Q + Q \div 2
            u(xx, yy) == DivQ(MulQ(py[2] - py[3], cx(xx) - px[3])
                               + MulQ(px[3] - px[2], cy(yy) - py[3]), denom)
            v(xx, yy) == DivQ(MulQ(py[3] - py[1], cx(xx) - px[3])
                               + MulQ(px[1] - px[3], cy(yy) - py[3]), denom)
            w(xx, yy) == Q - u(xx, yy) - v(xx, yy)
            invz_interp(xx, yy) == MulQ(u(xx, yy), invz[1]) + MulQ(v(xx, yy), invz[2])
                                     + MulQ(w(xx, yy), invz[3])
            z_interp(xx, yy) == DivQ(Q, Max2(invz_interp(xx, yy), kEpsilon))
        IN  IF Abs(denom) < tolerance THEN {}
            ELSE { [idx |-> p[2] * Width + p[1], z |-> z_interp(p[1], p[2])] :
                     p \in { q \in (minx .. maxx) \X (miny .. maxy) :
                               ~(u(q[1], q[2]) < 0 \/ v(q[1], q[2]) < 0 \/ w(q[1], q[2]) < 0) } }

\* processTriangle with every depth test removed
processTriangleOverwrite(tri_cam, cam, aspect, ortho_scale, zbuf) ==
    LET frags == insideFragments(tri_cam, cam, aspect, ortho_scale)
    IN  [i \in Pixels |->
            IF \E f \in frags : f.idx = i /\ f.z > cam.near_plane
            THEN (CHOOSE f \in frags : f.idx = i).z
            ELSE zbuf[i]]

\* DepthMapGenerator::processTriangle: the z-buffer after the call
processTriangle(tri_cam, cam, aspect, ortho_scale, zbuf) ==
    LET frags == insideFragments(tri_cam, cam, aspect, ortho_scale)
    IN  [i \in Pixels |->
            IF \E f \in frags : f.idx = i /\ f.z > cam.near_plane /\ f.z < zbuf[i]
            THEN (CHOOSE f \in frags : f.idx = i).z
            ELSE zbuf[i]]

\* generate, lines 124-126: the sub-triangles rasterized in turn
RECURSIVE processAll(_, _, _, _, _, _)
processAll(tris, k, cam, aspect, ortho_scale, zbuf) ==
    IF k > Len(tris) THEN zbuf
    ELSE processAll(tris, k + 1, cam, aspect, ortho_scale,
                    processTriangle(tris[k], cam, aspect, ortho_scale, zbuf))

RECURSIVE SetMin(_)
SetMin(S) == LET a == CHOOSE a \in S : TRUE
             IN  IF S = {a} THEN a ELSE Min2(a, SetMin(S \ {a}))

RECURSIVE SetMax(_)
SetMax(S) == LET a == CHOOSE a \in S : TRUE
             IN  IF S = {a} THEN a ELSE Max2(a, SetMax(S \ {a}))

\* finalizeDepthMap with the remap running from depth_far at the closest
\* point to depth_near at the farthest
finalizeDepthMapForward(zbuf, depth_near, depth_far, bg_separation) ==
    LET finite == { zbuf[i] : i \in Pixels } \ {INF, 0 - INF}
        zmin == IF finite = {} THEN INF ELSE SetMin(finite)
        zmax == IF finite = {} THEN 0 - INF ELSE SetMax(finite)
        extended_zmax == IF finite = {} THEN 0 - INF
                         ELSE zmax + MulQ(zmax - zmin, bg_separation)
    IN  IF ~isfinite(zmin) \/ ~isfinite(extended_zmax)
        THEN [depth |-> [i \in Pixels |-> 0], out_zmin |-> zmin, out_zmax |-> zmax]
        ELSE LET range0 == extended_zmax - zmin
                 range == IF range0 < tolerance THEN Q ELSE range0
             IN  [depth |-> [i \in Pixels |->
                                IF ~isfinite(zbuf[i]) THEN depth_far
                                ELSE depth_far
                                       + MulQ(depth_near - depth_far,
                                              DivQ(zbuf[i] - zmin, range))],
                  out_zmin |-> zmin,
                  out_zmax |-> extended_zmax]

\* DepthMapGenerator::finalizeDepthMap: the returned map and the two outputs
finalizeDepthMap(zbuf, depth_near, depth_far, bg_separation) ==
    LET finite == { zbuf[i] : i \in Pixels } \ {INF, 0 - INF}
        zmin == IF finite = {} THEN INF ELSE SetMin(finite)
        zmax == IF finite = {} THEN 0 - INF ELSE SetMax(finite)
        \* -inf + (-inf - inf) * bg_separation is -inf or NaN
        extended_zmax == IF finite = {} THEN 0 - INF
                         ELSE zmax + MulQ(zmax - zmin, bg_separation)
    IN  IF ~isfinite(zmin) \/ ~isfinite(extended_zmax)
        THEN [depth |-> [i \in Pixels |-> 0], out_zmin |-> zmin, out_zmax |-> zmax]
        ELSE LET range0 == extended_zmax - zmin
                 range == IF range0 < tolerance THEN Q ELSE range0
             IN  [depth |-> [i \in Pixels |->
                                IF ~isfinite(zbuf[i]) THEN depth_far
                                ELSE depth_near
                                       + MulQ(depth_far - depth_near,
                                              DivQ(zbuf[i] - zmin, range))],
                  out_zmin |-> zmin,
                  out_zmax |-> extended_zmax]

\* ------------------------------------------------------------------------
\* DepthMapGenerator::generate over a family of meshes and cameras
\* ------------------------------------------------------------------------
MaxTris == 2

\* a point with integer world coordinates
P(px, py, pz) == <<px * Q, py * Q, pz * Q>>

\* world triangles, for a camera at (0, 0, 3) that looks at the origin:
\* a far one and a nearer one facing the camera, a tilted one, one that
\* straddles the near plane, one behind the camera, one without area and one
\* outside the viewport
Triangles ==
    { <<P(-4, -3, 0), P(4, -3, 0), P(0, 3, 0)>>,
      <<P(-2, -2, 1), P(2, -2, 1), P(-2, 2, 1)>>,
      <<P(-4, -3, -1), P(4, -3, 2), P(0, 3, 0)>>,
      <<P(-2, -2, 0), P(2, -2, 0), P(0, 0, 4)>>,
      <<P(-1, -1, 4), P(1, -1, 4), P(0, 1, 5)>>,
      <<P(0, 0, 0), P(1, 1, 0), P(2, 2, 0)>>,
      <<P(10, 10, 0), P(12, 10, 0), P(10, 12, 0)>> }

Meshes == UNION { [1 .. n -> Triangles] : n \in 0 .. MaxTris }

\* near_plane is the default 1e-3
Cameras ==
    [position : {P(0, 0, 3)}, look_at : {P(0, 0, 0)}, up : {P(0, 1, 0)},
     fov_deg : {90}, perspective : BOOLEAN, near_plane : {1}]

DepthCalls ==
    [mesh : Meshes, cam : Cameras, ortho_scale : {6 * Q},
     depth_near : {750}, depth_far : {100, 0}, bg_separation : {0, 300}]

\* generate, lines 96-127: one iteration of the loop over the triangles
generate_triangle ==
    /\ depthPc = "triangles"
    /\ t < Len(depthCall.mesh)
    /\ LET cam == depthCall.cam
           aspect == aspectOf(Width, Height)
           znear == Max2(cam.near_plane, kEpsilon)
           vcam == toCamera(depthCall.mesh[t + 1], cam)
           tris == clippedTris(depthCall.mesh[t + 1], cam)
           projected == { k \in 1 .. Len(tris) :
                            \A i \in 1 .. 3 :
                               projectVertices(tris[k], cam, aspect,
                                               depthCall.ortho_scale)[i].ok }
       IN  /\ zbuffer' = processAll(tris, 1, cam, aspect, depthCall.ortho_scale, zbuffer)
           /\ clipLog' = Append(clipLog,
                  [straddles |-> /\ \E i \in 1 .. 3 : vcam[i][3] > znear
                                 /\ \E i \in 1 .. 3 : vcam[i][3] < znear,
                   subTris |-> Len(tris),
                   projected |-> Cardinality(projected)])
    /\ t' = t + 1
    /\ UNCHANGED <<depthCall, depthPc, depthRet, sirdsVars, sepVars, createVars, libVars>>

\* generate, lines 129-130
generate_finalize ==
    /\ depthPc = "triangles"
    /\ t = Len(depthCall.mesh)
    /\ depthRet' = finalizeDepthMap(zbuffer, depthCall.depth_near, depthCall.depth_far,
                                    depthCall.bg_separation)
    /\ depthPc' = "returned"
    /\ UNCHANGED <<depthCall, t, zbuffer, clipLog, sirdsVars, sepVars, createVars, libVars>>

\* generate entered with any of the calls: lines 85-94 have run
InitDepth ==
    /\ build = Unresolved
    /\ sirdsIdle
    /\ sepIdle
    /\ depthCall \in DepthCalls
    /\ t = 0
    /\ zbuffer = [i \in Pixels |-> INF]
    /\ depthPc = "triangles"
    /\ depthRet = NULL
    /\ clipLog = << >>
    /\ createIdle
    /\ libIdle

NextDepth ==
    \/ generate_triangle
    \/ generate_finalize

SpecDepth == InitDepth /\ [][NextDepth]_vars

\* ------------------------------------------------------------------------
\* The stl mesh through the pipeline (lib/objtostl.h, lib/vectorutils.h,
\* lib/StereogramGenerator.h)
\* ------------------------------------------------------------------------
VAdd(a, b) == <<a[1] + b[1], a[2] + b[2], a[3] + b[3]>>

VScale(a, s) == <<MulQ(a[1], s), MulQ(a[2], s), MulQ(a[3], s)>>

\* stl mesh; as default constructed
emptyMesh == [m_vectors |-> << >>, m_num_triangles |-> 0]

\* vertex i (from 0) of a float array: array[i * 3 + 0 .. i * 3 + 2]
vertexAt(array, i) == <<array[3 * i + 1], array[3 * i + 2], array[3 * i + 3]>>

\* the loop `for (size_t i = 0; i < vcount; ++i)` of the vectorutils
\* functions: f is applied in place to the first vcount vertices
inPlace(array, vcount, f(_)) ==
    [k \in 1 .. Len(array) |->
        IF (k - 1) \div 3 < vcount
        THEN f(vertexAt(array, (k - 1) \div 3))[((k - 1) % 3) + 1]
        ELSE array[k]]

\* vectorutils::scale
scale(array, vcount, sc) ==
    LET f(v) == <<MulQ(v[1], sc[1]), MulQ(v[2], sc[2]), MulQ(v[3], sc[3])>>
    IN  inPlace(array, vcount, f)

\* vectorutils::shear_mesh: glm matrices are indexed [column][row], so
\* shearMat[1][0] = sh_xy adds sh_xy * y to x
shear_mesh(array, vcount, sh) ==
    LET f(v) == <<v[1] + MulQ(sh[1], v[2]) + MulQ(sh[2], v[3]),
                  v[2] + MulQ(sh[3], v[3]),
                  v[3]>>
    IN  inPlace(array, vcount, f)

\* vectorutils::rotateQuaternion about the origin, for the rotations of the
\* options modelled: none about x and y, 0 or 90 degrees about z
rotateQuaternion(array, vcount, rot_deg) ==
    LET f(v) == IF rot_deg[3] = 90 THEN <<0 - v[2], v[1], v[3]>> ELSE v
    IN  IF vcount = 0 THEN array ELSE inPlace(array, vcount, f)

\* vectorutils::translate
translate(array, vcount, trans) ==
    LET f(v) == VAdd(v, trans)
    IN  inPlace(array, vcount, f)

\* StereogramGenerator::transformMesh
transformMesh(m, o) ==
    LET vcount == m.m_num_triangles * 3
    IN  [m EXCEPT !.m_vectors =
            translate(
              rotateQuaternion(
                shear_mesh(scale(@, vcount, o.sc), vcount, o.shear),
                vcount, o.rot_deg),
              vcount, o.trans)]

\* OBJToSTL::convert, lines 21-45: nine floats and one count per index triple
RECURSIVE convertFrom(_, _, _)
convertFrom(m, indices, i) ==
    IF i > Len(indices) THEN m
    ELSE convertFrom(
           [m_vectors |-> m.m_vectors \o indices[i][1] \o indices[i][2] \o indices[i][3],
            m_num_triangles |-> m.m_num_triangles + 1],
           indices, i + 1)

\* OBJToSTL::convert: obj is what rapidobj::ParseFile and Triangulate yield
convert(obj, m) ==
    IF obj.error THEN [ok |-> FALSE, mesh |-> m]
    ELSE [ok |-> TRUE, mesh |-> convertFrom(emptyMesh, obj.indices, 1)]

\* StereogramGenerator::calculateMeshBounds over a mesh with a vertex
calculateMeshBounds(vdata, vcount) ==
    LET lo(k) == SetMin({vdata[3 * i + k] : i \in 0 .. vcount - 1})
        hi(k) == SetMax({vdata[3 * i + k] : i \in 0 .. vcount - 1})
    IN  [center |-> <<MulQ(lo(1) + hi(1), Q \div 2), MulQ(lo(2) + hi(2), Q \div 2),
                      MulQ(lo(3) + hi(3), Q \div 2)>>,
         xyzspan |-> <<hi(1) - lo(1), hi(2) - lo(2), hi(3) - lo(3)>>]

\* std::tan(glm::radians(deg)) for the ramp angles modelled
tanDeg(deg) == CASE deg = 0 -> 0
                 [] deg = 45 -> Q

\* the lambda of addFloorRampFacingCamera with the count left alone
emitTriUncounted(m, forward, a, b, c) ==
    LET n == Cross(VSub(b, a), VSub(c, a))
        swap == Dot(n, forward) > 0
    IN  [m_vectors |-> m.m_vectors \o a \o (IF swap THEN c ELSE b) \o (IF swap THEN b ELSE c),
         m_num_triangles |-> m.m_num_triangles]

\* the lambda emitTriFacingCamera of addFloorRampFacingCamera, lines 291-301
emitTriFacingCamera(m, forward, a, b, c) ==
    LET n == Cross(VSub(b, a), VSub(c, a))
        swap == Dot(n, forward) > 0
    IN  [m_vectors |-> m.m_vectors \o a \o (IF swap THEN c ELSE b) \o (IF swap THEN b ELSE c),
         m_num_triangles |-> m.m_num_triangles + 1]

\* StereogramGenerator::addFloorRampFacingCamera. With no vertex in the mesh
\* dMin = dMax = dTop, so forwardAdvance = max(0, dTop - max(dTop, near + eps))
\* and drop are 0 and nothing is emitted; the bounds of such a mesh (spans of
\* -2e9) are outside the fixed-point range and are not evaluated.
addFloorRampFacingCamera(m, cam, center, xyzspan, rampWidth, rampSep, floorAngleDeg) ==
    LET basis == computeBasis(cam)
        right == basis.right
        up == basis.up_cam
        xspan == xyzspan[1] + MulQ(xyzspan[1], 50)
        yspan == xyzspan[2] + MulQ(xyzspan[2], 50)
        forward == IF Dot(VSub(center, cam.position), basis.forward) < 0
                   THEN VSub(<<0, 0, 0>>, basis.forward)
                   ELSE basis.forward
        halfx == MulQ(MulQ(xspan, rampWidth), Q \div 2)
        gap == MulQ(yspan, rampSep)
        topCenter == VSub(center, VScale(up, MulQ(Q \div 2, yspan) + gap))
        V == m.m_vectors
        ds == {Dot(VSub(vertexAt(V, i), cam.position), forward) :
                  i \in 0 .. (Len(V) \div 3) - 1}
        dTop == Dot(VSub(topCenter, cam.position), forward)
        dMin == SetMin(ds)
        dMax == SetMax(ds)
        eps == 1
        dFront == Max2(dMin, cam.near_plane + eps)
        forwardAdvance == Max2(0, dMax - dFront)
        drop == MulQ(forwardAdvance, tanDeg(floorAngleDeg - 90))
        deltaBack == VScale(forward, dMax - dTop)
        v0 == VAdd(VSub(topCenter, VScale(right, halfx)), deltaBack)
        v1 == VAdd(VAdd(topCenter, VScale(right, halfx)), deltaBack)
        v2 == VSub(VSub(v1, VScale(forward, forwardAdvance)), VScale(up, drop))
        v3 == VSub(VSub(v0, VScale(forward, forwardAdvance)), VScale(up, drop))
    IN  IF ds = {} THEN m
        ELSE IF forwardAdvance > 0 \/ Abs(drop) > 0
             THEN emitTriFacingCamera(emitTriFacingCamera(m, forward, v0, v1, v2),
                                      forward, v0, v2, v3)
             ELSE m

\* what rapidobj yields for the OBJ files modelled: a parse error, or one
\* shape whose triangulated faces are a mesh of up to MaxTris triangles
ObjFiles ==
    {[error |-> TRUE, indices |-> << >>]}
        \cup {[error |-> FALSE, indices |-> m] : m \in Meshes}

\* Options::sc, shear, rot_deg and trans
TransformOptions ==
    [sc : {P(1, 1, 1), P(2, 1, 1)},
     shear : {P(0, 0, 0), <<Q \div 2, 0, 0>>},
     rot_deg : {<<0, 0, 0>>, <<0, 0, 90>>},
     trans : {P(0, 0, 0), P(0, 0, 1)}]

\* Options::add_floor, rampWidth, rampSep and rampAngle
FloorOptions ==
    [add_floor : BOOLEAN,
     rampWidth : {0, 5 * (Q \div 2)},
     rampSep : {0, Q \div 10},
     rampAngle : {90, 135}]

\* create, lines 33-37
mesh_convert ==
    /\ meshPc = "load"
    /\ \E obj \in ObjFiles :
          LET r == convert(obj, mesh)
          IN  /\ mesh' = r.mesh
              /\ meshPc' = IF r.ok THEN "transform" ELSE "thrown"
    /\ meshOp' = [op |-> "convert", before |-> mesh]
    /\ UNCHANGED <<sirdsVars, sepVars, depthVars, createVars, ufOp, pureVars, appVars>>

\* create, line 48
mesh_transform ==
    /\ meshPc = "transform"
    /\ \E o \in TransformOptions : mesh' = transformMesh(mesh, o)
    /\ meshPc' = "floor"
    /\ meshOp' = [op |-> "transformMesh", before |-> mesh]
    /\ UNCHANGED <<sirdsVars, sepVars, depthVars, createVars, ufOp, pureVars, appVars>>

\* create, lines 54-64; the bounds of a mesh without a vertex are not
\* evaluated by addFloorRampFacingCamera and are passed as zero
mesh_floor ==
    /\ meshPc = "floor"
    /\ \E o \in FloorOptions : \E cam \in Cameras :
          IF o.add_floor /\ o.rampWidth > 0
          THEN /\ mesh' =
                    IF mesh.m_num_triangles = 0
                    THEN addFloorRampFacingCamera(mesh, cam, <<0, 0, 0>>, <<0, 0, 0>>,
                            o.rampWidth, o.rampSep, o.rampAngle)
                    ELSE LET bounds == calculateMeshBounds(mesh.m_vectors,
                                                           mesh.m_num_triangles * 3)
                         IN  addFloorRampFacingCamera(mesh, cam, bounds.center,
                                bounds.xyzspan, o.rampWidth, o.rampSep, o.rampAngle)
               /\ meshOp' = [op |-> "addFloorRampFacingCamera", before |-> mesh]
          ELSE /\ mesh' = mesh
               /\ meshOp' = [op |-> "none", before |-> mesh]
    /\ meshPc' = "done"
    /\ UNCHANGED <<sirdsVars, sepVars, depthVars, createVars, ufOp, pureVars, appVars>>

\* stl mesh; at line 26 of create, for a path with the extension .obj
InitMesh ==
    /\ build = Unresolved
    /\ sirdsIdle
    /\ sepIdle
    /\ depthIdle
    /\ createIdle
    /\ appIdle
    /\ ufOp = NULL
    /\ pureIdle
    /\ mesh = emptyMesh
    /\ meshPc = "load"
    /\ meshOp = [op |-> "construct", before |-> emptyMesh]

NextMesh ==
    \/ mesh_convert
    \/ mesh_transform
    \/ mesh_floor

SpecMesh == InitMesh /\ [][NextMesh]_vars

\* ------------------------------------------------------------------------
\* SeparationCalibrator::estimateFocusDepth (lib/SeparationCalibrator.h)
\* ------------------------------------------------------------------------
\* const int bins = 256
bins == 256

\* std::clamp(v, lo, hi) for lo <= hi
clamp(v, lo, hi) == IF v < lo THEN lo ELSE IF hi < v THEN hi ELSE v

\* lines 19-25: the histogram after the entries i.. of depth
RECURSIVE histFrom(_, _, _)
histFrom(hist, depth, i) ==
    IF i > Len(depth) THEN hist
    ELSE IF ~isfinite(depth[i]) THEN histFrom(hist, depth, i + 1)
    ELSE LET clamped == clamp(depth[i], 0, Q)
             idx == clamp(RoundQ(clamped * (bins - 1)), 0, bins - 1)
         IN  histFrom([hist EXCEPT ![idx] = @ + 1], depth, i + 1)

\* std::max_element taking the last of the largest elements
max_elementLast(hist) ==
    LET largest == SetMax({hist[b] : b \in DOMAIN hist})
    IN  CHOOSE b \in DOMAIN hist :
            /\ hist[b] = largest
            /\ \A c \in DOMAIN hist : c > b => hist[c] < largest

\* std::max_element(hist.begin(), hist.end()) - hist.begin(): the first of
\* the largest elements
max_element(hist) ==
    LET largest == SetMax({hist[b] : b \in DOMAIN hist})
    IN  CHOOSE b \in DOMAIN hist :
            /\ hist[b] = largest
            /\ \A c \in DOMAIN hist : c < b => hist[c] < largest

\* SeparationCalibrator::estimateFocusDepth; width and height are not read
estimateFocusDepth(depth) ==
    IF Len(depth) = 0 THEN Q \div 2
    ELSE LET hist == histFrom([b \in 0 .. bins - 1 |-> 0], depth, 1)
             count == Cardinality({i \in 1 .. Len(depth) : isfinite(depth[i])})
         IN  IF count = 0 THEN Q \div 2
             ELSE LET maxBin == max_element(hist)
                      modeDepth == (maxBin * Q) \div (bins - 1)
                  IN  clamp(modeDepth, Q \div 10, 9 * (Q \div 10))

\* the longest depth map
MaxFocusLen == 3

\* depth values: below 0, in the lowest bins, mid-range, in the highest bin,
\* above 1 and not finite
FocusDepths == {0 - Q, 0, 50, Q \div 5, Q \div 2, 950, Q, 2 * Q, INF, 0 - INF}

FocusInputs == UNION {[1 .. n -> FocusDepths] : n \in 0 .. MaxFocusLen}

estimateFocusDepth_call ==
    /\ focus # NULL
    /\ ~focus.returned
    /\ focus' = [focus EXCEPT !.returned = TRUE, !.ret = estimateFocusDepth(focus.depth)]
    /\ UNCHANGED <<sirdsVars, sepVars, depthVars, createVars, ufOp, meshVars, noise, sample, appVars>>

InitFocus ==
    /\ build = Unresolved
    /\ sirdsIdle
    /\ sepIdle
    /\ depthIdle
    /\ createIdle
    /\ appIdle
    /\ ufOp = NULL
    /\ meshIdle
    /\ noise = NULL
    /\ sample = NULL
    /\ \E depth \in FocusInputs : focus = [depth |-> depth, returned |-> FALSE, ret |-> 0]

NextFocus == estimateFocusDepth_call

SpecFocus == InitFocus /\ [][NextFocus]_vars

\* ------------------------------------------------------------------------
\* BlueNoise::generateRGB (lib/BlueNoise.h)
\* ------------------------------------------------------------------------
\* A uint32_t is the pair <<high 16 bits, low 16 bits>>; every operation
\* wraps modulo 2^32.
H16 == 65536

u32(hi, lo) == <<hi, lo>>

\* 2^e for e in 0 .. 16
Pow2(e) == <<1, 2, 4, 8, 16, 32, 64, 128, 256, 512, 1024, 2048, 4096, 8192,
             16384, 32768, 65536>>[e + 1]

\* exclusive or of two numbers below 16, tabulated: xor4[a + 1][b + 1]
xor4 ==
    <<<< 0,  1,  2,  3,  4,  5,  6,  7,  8,  9, 10, 11, 12, 13, 14, 15>>,
      << 1,  0,  3,  2,  5,  4,  7,  6,  9,  8, 11, 10, 13, 12, 15, 14>>,
      << 2,  3,  0,  1,  6,  7,  4,  5, 10, 11,  8,  9, 14, 15, 12, 13>>,
      << 3,  2,  1,  0,  7,  6,  5,  4, 11, 10,  9,  8, 15, 14, 13, 12>>,
      << 4,  5,  6,  7,  0,  1,  2,  3, 12, 13, 14, 15,  8,  9, 10, 11>>,
      << 5,  4,  7,  6,  1,  0,  3,  2, 13, 12, 15, 14,  9,  8, 11, 10>>,
      << 6,  7,  4,  5,  2,  3,  0,  1, 14, 15, 12, 13, 10, 11,  8,  9>>,
      << 7,  6,  5,  4,  3,  2,  1,  0, 15, 14, 13, 12, 11, 10,  9,  8>>,
      << 8,  9, 10, 11, 12, 13, 14, 15,  0,  1,  2,  3,  4,  5,  6,  7>>,
      << 9,  8, 11, 10, 13, 12, 15, 14,  1,  0,  3,  2,  5,  4,  7,  6>>,
      <<10, 11,  8,  9, 14, 15, 12, 13,  2,  3,  0,  1,  6,  7,  4,  5>>,
      <<11, 10,  9,  8, 15, 14, 13, 12,  3,  2,  1,  0,  7,  6,  5,  4>>,
      <<12, 13, 14, 15,  8,  9, 10, 11,  4,  5,  6,  7,  0,  1,  2,  3>>,
      <<13, 12, 15, 14,  9,  8, 11, 10,  5,  4,  7,  6,  1,  0,  3,  2>>,
      <<14, 15, 12, 13, 10, 11,  8,  9,  6,  7,  4,  5,  2,  3,  0,  1>>,
      <<15, 14, 13, 12, 11, 10,  9,  8,  7,  6,  5,  4,  3,  2,  1,  0>>>>

\* exclusive or of two numbers below 2^16, four bits at a time
xor16(a, b) ==
    xor4[(a \div 4096) + 1][(b \div 4096) + 1] * 4096
      + xor4[((a \div 256) % 16) + 1][((b \div 256) % 16) + 1] * 256
      + xor4[((a \div 16) % 16) + 1][((b \div 16) % 16) + 1] * 16
      + xor4[(a % 16) + 1][(b % 16) + 1]

\* a ^ b
xor32(a, b) == <<xor16(a[1], b[1]), xor16(a[2], b[2])>>

\* a >> s for 0 < s < 32
shr32(a, s) ==
    IF s >= 16 THEN <<0, a[1] \div Pow2(s - 16)>>
    ELSE <<a[1] \div Pow2(s),
           (a[1] % Pow2(s)) * Pow2(16 - s) + a[2] \div Pow2(s)>>

\* the low 16 bits of the product of two numbers below 2^16
mulLow16(a, b) == ((a % 256) * b + (((a \div 256) * b) % 256) * 256) % H16

\* a * b modulo 2^32
mul32(a, b) ==
    LET p0 == (a[2] % 256) * b[2]
        p1 == (a[2] \div 256) * b[2]
        lowSum == (p1 % 256) * 256 + (p0 % H16)
    IN  <<(p1 \div 256 + p0 \div H16 + lowSum \div H16
             + mulLow16(a[1], b[2]) + mulLow16(a[2], b[1])) % H16,
          lowSum % H16>>

\* static const int bayer8[64]
bayer8 ==
    << 0, 32,  8, 40,  2, 34, 10, 42,
      48, 16, 56, 24, 50, 18, 58, 26,
      12, 44,  4, 36, 14, 46,  6, 38,
      60, 28, 52, 20, 62, 30, 54, 22,
       3, 35, 11, 43,  1, 33,  9, 41,
      51, 19, 59, 27, 49, 17, 57, 25,
      15, 47,  7, 39, 13, 45,  5, 37,
      63, 31, 55, 23, 61, 29, 53, 21>>

\* the hash that forgets the seed's low bit: x >> 1 before the mixing
h32Coarse(x0) ==
    LET x1 == <<x0[1], x0[2] - (x0[2] % 2)>>
        x2 == mul32(xor32(x1, shr32(x1, 17)), u32(60762, 54459))
        x3 == mul32(xor32(x2, shr32(x2, 11)), u32(44108, 6993))
        x4 == mul32(xor32(x3, shr32(x3, 15)), u32(12676, 35755))
    IN  xor32(x4, shr32(x4, 14))

\* the lambda h32, lines 28-34; the multipliers are 0xED5AD4BB, 0xAC4C1B51
\* and 0x31848BAB
h32(x0) ==
    LET x1 == mul32(xor32(x0, shr32(x0, 17)), u32(60762, 54459))
        x2 == mul32(xor32(x1, shr32(x1, 11)), u32(44108, 6993))
        x3 == mul32(xor32(x2, shr32(x2, 15)), u32(12676, 35755))
    IN  xor32(x3, shr32(x3, 14))

\* lines 38-48: the three bytes of pixel (px, py); float(r) * (b + 1) / 64 is
\* exact in a float, and the cast to uint8_t truncates it
noisePixel(px, py, seed) ==
    LET b == bayer8[(py % 8) * 8 + (px % 8) + 1]
        base == h32(xor32(xor32(mul32(u32(0, px), u32(1126, 62557)),
                                mul32(u32(0, py), u32(295, 16543))),
                          seed))
        r == base[2] % 256
        g == base[2] \div 256
        bch == base[1] % 256
    IN  <<clamp((r * (b + 1)) \div 64, 0, 255),
          clamp((g * (b + 1)) \div 64, 0, 255),
          clamp((bch * (b + 1)) \div 64, 0, 255)>>

\* lines 36-55: the bytes of the pixels lo .. hi in the order of the loops
\* (idx = (y * width + x) * 3)
RECURSIVE generateRGBFrom(_, _, _, _)
generateRGBFrom(width, seed, lo, hi) ==
    IF lo = hi THEN noisePixel(lo % width, lo \div width, seed)
    ELSE LET mid == (lo + hi) \div 2
         IN  generateRGBFrom(width, seed, lo, mid)
                \o generateRGBFrom(width, seed, mid + 1, hi)

\* BlueNoise::generateRGB
generateRGB(width, height, seed) ==
    IF width * height = 0 THEN << >>
    ELSE generateRGBFrom(width, seed, 0, width * height - 1)

\* the call the buffers are compared on: generateRGB(64, 64, seed)
NoiseSide == 64

\* the largest side of the other buffers generated
MaxNoiseSide == 3

NoiseSeeds == {42, 43, 1337}

NoiseArgs ==
    [width : {NoiseSide}, height : {NoiseSide}, seed : {42, 43}]
        \cup [width : 1 .. MaxNoiseSide, height : 1 .. MaxNoiseSide, seed : NoiseSeeds]

noiseArgs42 == [width |-> NoiseSide, height |-> NoiseSide, seed |-> 42]

noiseArgs43 == [width |-> NoiseSide, height |-> NoiseSide, seed |-> 43]

\* generateRGB(64, 64, 42) and generateRGB(64, 64, 43), evaluated once
noiseTex42 == generateRGB(NoiseSide, NoiseSide, u32(0, 42))

noiseTex43 == generateRGB(NoiseSide, NoiseSide, u32(0, 43))

\* one call of BlueNoise::generateRGB; the buffers of the first calls with
\* (64, 64, 42) and (64, 64, 43) are kept for comparison
generateRGB_call ==
    /\ noise # NULL
    /\ \E a \in NoiseArgs :
          LET tex == IF a = noiseArgs42 THEN noiseTex42
                     ELSE IF a = noiseArgs43 THEN noiseTex43
                     ELSE generateRGB(a.width, a.height, u32(0, a.seed))
          IN  noise' =
                 [last |-> [args |-> a, tex |-> tex],
                  tex42 |-> IF a = noiseArgs42 /\ noise.tex42 = << >>
                            THEN tex ELSE noise.tex42,
                  tex43 |-> IF a = noiseArgs43 /\ noise.tex43 = << >>
                            THEN tex ELSE noise.tex43,
                  between |-> IF a = noiseArgs42 THEN noise.between
                              ELSE noise.tex42 # << >>,
                  again |-> a = noiseArgs42 /\ noise.tex42 # << >>]
    /\ UNCHANGED <<sirdsVars, sepVars, depthVars, createVars, ufOp, meshVars, focus, sample, appVars>>

InitNoise ==
    /\ build = Unresolved
    /\ sirdsIdle
    /\ sepIdle
    /\ depthIdle
    /\ createIdle
    /\ appIdle
    /\ ufOp = NULL
    /\ meshIdle
    /\ focus = NULL
    /\ sample = NULL
    /\ noise = [last |-> [args |-> [width |-> 0, height |-> 0, seed |-> 0], tex |-> << >>],
                tex42 |-> << >>, tex43 |-> << >>, between |-> FALSE, again |-> FALSE]

NextNoise == generateRGB_call

SpecNoise == InitNoise /\ [][NextNoise]_vars

\* ------------------------------------------------------------------------
\* TextureSampler::sampleBilinearTiled (lib/TextureSampler.h)
\* ------------------------------------------------------------------------
\* Texture coordinates are IEEE single-precision floats, here the integer
\* number of units of 2^-26; a sum is rounded to the 24-bit significand.
F26 == 67108864

\* the significand of a float holds 24 bits
Significand == 16777216

\* the distance between neighbouring floats at magnitude v (in units)
RECURSIVE ulpFrom(_, _)
ulpFrom(v, u) == IF v < Significand THEN u ELSE ulpFrom(v \div 2, 2 * u)

\* the float nearest to the real number v, ties to the even significand
roundFloat(v) ==
    LET a == Abs(v)
        u == ulpFrom(a, 1)
        down == (a \div u) * u
        rest == a - down
        r == IF 2 * rest < u THEN down
             ELSE IF 2 * rest > u THEN down + u
             ELSE IF (down \div u) % 2 = 0 THEN down ELSE down + u
    IN  IF v < 0 THEN 0 - r ELSE r

\* std::fmod(a, b) for b > 0: the remainder has the sign of a and is exact
fmod(a, b) == IF a >= 0 THEN a % b ELSE 0 - ((0 - a) % b)

\* a float in [0, 1] as a fixed-point number
weightQ(f) == ((f \div 1024) * Q) \div (F26 \div 1024)

\* the lambda getTexel of sampleBilinearTiled, line 81: index (y * tw + x) * tchan + c from 0; wild
\* is what a read outside the buffer yields
texelIndex(tw, tchan, tx, ty, c) == (ty * tw + tx) * tchan + c

getTexelTiled(texture, tw, tchan, tx, ty, c, wild) ==
    LET i == texelIndex(tw, tchan, tx, ty, c)
    IN  IF i >= 0 /\ i < Len(texture) THEN texture[i + 1] ELSE wild

\* lines 66-69: fmod, then `if (texX < 0) texX += tw` in float arithmetic
wrap(coord, size) ==
    LET r == fmod(coord, size * F26)
    IN  IF r < 0 THEN roundFloat(r + size * F26) ELSE r

\* TextureSampler::sampleBilinearTiled: the colour, and the texel indices read
sampleBilinearTiled(texture, tw, th, tchan, texX0, texY0, wild) ==
    LET texX == wrap(texX0, tw)
        texY == wrap(texY0, th)
        x0 == texX \div F26
        y0 == texY \div F26
        fx == weightQ(texX - x0 * F26)
        fy == weightQ(texY - y0 * F26)
        x1 == (x0 + 1) % tw
        y1 == (y0 + 1) % th
        channel(c) ==
            LET c00 == getTexelTiled(texture, tw, tchan, x0, y0, c, wild) * Q
                c10 == getTexelTiled(texture, tw, tchan, x1, y0, c, wild) * Q
                c01 == getTexelTiled(texture, tw, tchan, x0, y1, c, wild) * Q
                c11 == getTexelTiled(texture, tw, tchan, x1, y1, c, wild) * Q
                top == MulQ(Q - fx, c00) + MulQ(fx, c10)
                bottom == MulQ(Q - fx, c01) + MulQ(fx, c11)
                val == MulQ(Q - fy, top) + MulQ(fy, bottom)
            IN  clamp(val, 0, 255 * Q) \div Q
    IN  [color |-> <<channel(0), channel(1), channel(2)>>,
         reads |-> {texelIndex(tw, tchan, tx, ty, c) :
                       tx \in {x0, x1}, ty \in {y0, y1}, c \in 0 .. 2}]

\* the largest side of a texture
MaxTexSide == 2

\* a texture of tw x th RGB texels
textureOf(tw, th, step) == [i \in 1 .. tw * th * 3 |-> ((i - 1) * step + 10) % 256]

\* coordinates: 0, a quarter, a half, just below 1, and the negative float
\* of smallest magnitude of the model
SampleCoords == {0, F26 \div 4, F26 \div 2, F26 - 4, 0 - 1}

\* the whole numbers of tiles a coordinate is shifted by
SampleShifts == {0 - 1, 0, 1, 2}

\* what a read outside the buffer yields
WildBytes == {0, 255}

\* the first call, at (x, y)
sample_at ==
    /\ sample # NULL
    /\ sample.pc = "first"
    /\ \E wild \in WildBytes :
          sample' = [sample EXCEPT
              !.pc = "second",
              !.a = sampleBilinearTiled(sample.texture, sample.tw, sample.th, 3,
                                        sample.x, sample.y, wild)]
    /\ UNCHANGED <<sirdsVars, sepVars, depthVars, createVars, ufOp, meshVars, focus, noise, appVars>>

\* the second call, at (x + k * tw, y + m * th) as the caller's floats
sample_shifted ==
    /\ sample # NULL
    /\ sample.pc = "second"
    /\ \E wild \in WildBytes :
          sample' = [sample EXCEPT
              !.pc = "done",
              !.b = sampleBilinearTiled(sample.texture, sample.tw, sample.th, 3,
                       roundFloat(sample.x + sample.k * sample.tw * F26),
                       roundFloat(sample.y + sample.m * sample.th * F26), wild)]
    /\ UNCHANGED <<sirdsVars, sepVars, depthVars, createVars, ufOp, meshVars, focus, noise, appVars>>

InitSample ==
    /\ build = Unresolved
    /\ sirdsIdle
    /\ sepIdle
    /\ depthIdle
    /\ createIdle
    /\ appIdle
    /\ ufOp = NULL
    /\ meshIdle
    /\ focus = NULL
    /\ noise = NULL
    /\ \E tw \in 1 .. MaxTexSide : \E th \in 1 .. MaxTexSide : \E step \in {37, 101} :
       \E sx \in SampleCoords : \E sy \in SampleCoords :
       \E k \in SampleShifts : \E m \in SampleShifts :
          sample = [pc |-> "first", tw |-> tw, th |-> th,
                    texture |-> textureOf(tw, th, step),
                    x |-> sx, y |-> sy, k |-> k, m |-> m,
                    a |-> [color |-> <<0, 0, 0>>, reads |-> {}],
                    b |-> [color |-> <<0, 0, 0>>, reads |-> {}]]

NextSample ==
    \/ sample_at
    \/ sample_shifted

SpecSample == InitSample /\ [][NextSample]_vars

\* ------------------------------------------------------------------------
\* StereogramGenerator::create (lib/StereogramGenerator.h)
\* ------------------------------------------------------------------------
\* std::tolower over the extension of options->stlpath
tolower(ext) == CASE ext = ".OBJ" -> ".obj"
                  [] ext = ".STL" -> ".stl"
                  [] OTHER -> ext

\* the options of a create call, with what the file system holds for its
\* paths: whether the mesh file parses and whether the texture file decodes
CreateOptions ==
    [ext : {".obj", ".OBJ", ".stl", ""},
     meshReadable : BOOLEAN,
     texpath : {"", "null", "texture.png"},
     textureReadable : BOOLEAN,
     laplace_smoothing : BOOLEAN,
     add_floor : BOOLEAN,
     rampWidth : {0, Q}]

\* create, line 24
create_checkOptions ==
    /\ createPc = "entry"
    /\ IF createOptions = NULL
       THEN createPc' = "thrown" /\ createResult' = "runtime_error"
       ELSE createPc' = "mesh" /\ createResult' = createResult
    /\ UNCHANGED <<createOptions, createSteps, files, sirdsVars, sepVars, depthVars, libVars>>

\* create, lines 26-42: OBJToSTL::convert or stl::read_stl
create_loadMesh ==
    /\ createPc = "mesh"
    /\ LET reader == IF tolower(createOptions.ext) = ".obj" THEN "OBJToSTL::convert"
                     ELSE "read_stl"
       IN  IF createOptions.meshReadable
           THEN /\ createPc' = "prepare"
                /\ createSteps' = createSteps \cup {reader}
                /\ createResult' = createResult
           ELSE /\ createPc' = "thrown"
                /\ createSteps' = createSteps
                /\ createResult' = "runtime_error"
    /\ UNCHANGED <<createOptions, files, sirdsVars, sepVars, depthVars, libVars>>

\* create, lines 44-66: the mesh is normalized, transformed, optionally
\* smoothed and given a floor; camera and ortho scale are set up
create_prepareMesh ==
    /\ createPc = "prepare"
    /\ createSteps' = createSteps
          \cup {"normalizeAndCenter", "transformMesh", "setupCamera"}
          \cup (IF createOptions.laplace_smoothing THEN {"smoothSTL"} ELSE {})
          \cup (IF createOptions.add_floor /\ createOptions.rampWidth > 0
                THEN {"addFloorRampFacingCamera"} ELSE {})
    /\ createPc' = "depth"
    /\ UNCHANGED <<createOptions, files, createResult, sirdsVars, sepVars, depthVars, libVars>>

\* create, lines 68-72
create_generateDepth ==
    /\ createPc = "depth"
    /\ createSteps' = createSteps \cup {"DepthMapGenerator::generate"}
    /\ createPc' = "saveDepth"
    /\ UNCHANGED <<createOptions, files, createResult, sirdsVars, sepVars, depthVars, libVars>>

\* create, line 77
saveDepthVisualization ==
    /\ createPc = "saveDepth"
    /\ files' = files \cup {"_depth.png"}
    /\ createPc' = "texture"
    /\ UNCHANGED <<createOptions, createSteps, createResult, sirdsVars, sepVars, depthVars, libVars>>

\* create, line 79
loadTexture ==
    /\ createPc = "texture"
    /\ IF createOptions.texpath # "" /\ createOptions.texpath # "null"
       THEN IF createOptions.textureReadable
            THEN /\ createSteps' = createSteps \cup {"loadRGB"}
                 /\ createPc' = "sirds"
                 /\ createResult' = createResult
            ELSE /\ createSteps' = createSteps
                 /\ createPc' = "thrown"
                 /\ createResult' = "runtime_error"
       ELSE /\ createSteps' = createSteps
            /\ createPc' = "sirds"
            /\ createResult' = createResult
    /\ UNCHANGED <<createOptions, files, sirdsVars, sepVars, depthVars, libVars>>

\* create, lines 81-85
create_generateSirds ==
    /\ createPc = "sirds"
    /\ createSteps' = createSteps \cup {"SIRDSGenerator::generate"}
    /\ createPc' = "saveSirds"
    /\ UNCHANGED <<createOptions, files, createResult, sirdsVars, sepVars, depthVars, libVars>>

\* saveStereogram without the write
saveStereogramSkipped ==
    /\ createPc = "saveSirds"
    /\ files' = files
    /\ createPc' = "return"
    /\ UNCHANGED <<createOptions, createSteps, createResult, sirdsVars, sepVars, depthVars, libVars>>

\* create, line 87
saveStereogram ==
    /\ createPc = "saveSirds"
    /\ files' = files \cup {"_sirds.png"}
    /\ createPc' = "return"
    /\ UNCHANGED <<createOptions, createSteps, createResult, sirdsVars, sepVars, depthVars, libVars>>

\* create, line 89
create_return ==
    /\ createPc = "return"
    /\ createResult' = "0"
    /\ createPc' = "returned"
    /\ UNCHANGED <<createOptions, createSteps, files, sirdsVars, sepVars, depthVars, libVars>>

\* a StereogramGenerator constructed over any of the options, or over none,
\* and create called on it
InitCreate ==
    /\ build = Unresolved
    /\ sirdsIdle
    /\ sepIdle
    /\ depthIdle
    /\ createOptions \in CreateOptions \cup {NULL}
    /\ createPc = "entry"
    /\ createSteps = {}
    /\ files = {}
    /\ createResult = "none"
    /\ libIdle

NextCreate ==
    \/ create_checkOptions
    \/ create_loadMesh
    \/ create_prepareMesh
    \/ create_generateDepth
    \/ saveDepthVisualization
    \/ loadTexture
    \/ create_generateSirds
    \/ saveStereogram
    \/ create_return

SpecCreate == InitCreate /\ [][NextCreate]_vars

\* create is straight-line code run by the calling thread: once entered, each
\* statement is executed after the one before it
SpecCreateFair == SpecCreate /\ WF_vars(NextCreate)

\* ------------------------------------------------------------------------
\* Properties of the SIRDS generator
\* ------------------------------------------------------------------------
\* the pixels joined to the pixels of S by a chain of unite calls
RECURSIVE linkedTo(_)
linkedTo(S) ==
    LET T == S \cup { b \in Cols : \E a \in S : {a, b} \in links }
    IN  IF T = S THEN S ELSE linkedTo(T)

\* the union-find of the running call holds one scanline
ufLive == pc \in {"row", "build", "smooth", "done"}

\* C1: within one scanline, after any prefix of the unite calls of buildUnions,
\* two pixels have the same representative exactly when a chain of unite
\* calls connects them.
C1_UnionFindMatchesLinks ==
    ufLive =>
        \A a \in Cols : \A b \in Cols :
            (findRoot(parent, a) = findRoot(parent, b)) <=> (b \in linkedTo({a}))

\* a scanline under construction in which two pixels are united only through
\* a third one, while some other pixel is in a different class
C1_Witness ==
    /\ pc = "build"
    /\ \E a \in Cols : \E b \in Cols :
          /\ a # b
          /\ {a, b} \notin links
          /\ b \in linkedTo({a})
          /\ findRoot(parent, a) = findRoot(parent, b)
    /\ \E a \in Cols : \E b \in Cols : findRoot(parent, a) # findRoot(parent, b)

\* pixels a and b of finished row r (0-based) were united during its linking
unitedInRow(r, a, b) == rowClass[r + 1][a] = rowClass[r + 1][b]

\* C2 as stated: in the image generate returns, two pixels of a row that were
\* united during that row's linking carry the same RGB value.
C2_UnitedSameColourAtReturn ==
    pc = "done" =>
        \A r \in Rows : \A a \in Cols : \A b \in Cols :
            unitedInRow(r, a, b) => out_rgb[r * Width + a] = out_rgb[r * Width + b]

\* C2 amended: united pixels carry the same RGB value until edge smoothing
\* runs, and in the returned image so do united pixels that edge smoothing
\* did not rewrite.
C2_UnitedSameColourUnlessSmoothed ==
    /\ pc \in {"row", "build", "smooth"} =>
          \A r \in 0 .. (Len(rowClass) - 1) : \A a \in Cols : \A b \in Cols :
              unitedInRow(r, a, b) => out_rgb[r * Width + a] = out_rgb[r * Width + b]
    /\ pc = "done" =>
          \A r \in Rows : \A a \in Cols : \A b \in Cols :
              /\ unitedInRow(r, a, b)
              /\ ~smoothed(adjusted_depth, options.smoothThreshold, r * Width + a)
              /\ ~smoothed(adjusted_depth, options.smoothThreshold, r * Width + b)
              => out_rgb[r * Width + a] = out_rgb[r * Width + b]

\* a returned image with two united pixels of a non-black class, one of them
\* rewritten by edge smoothing
C2_Witness ==
    /\ pc = "done"
    /\ \E r \in Rows : \E a \in Cols : \E b \in Cols :
          /\ a # b
          /\ unitedInRow(r, a, b)
          /\ ~smoothed(adjusted_depth, options.smoothThreshold, r * Width + a)
          /\ ~smoothed(adjusted_depth, options.smoothThreshold, r * Width + b)
          /\ out_rgb[r * Width + a] # Black
          /\ \E m \in Cols : smoothed(adjusted_depth, options.smoothThreshold, r * Width + m)

\* C3: after generate every pixel carries the colour of a root that was given
\* a colour (its rootColor entry was stored), not the initial zero.
C3_EveryPixelColoured ==
    pc \in {"smooth", "done"} =>
        \A r \in Rows : \A a \in Cols : rowClass[r + 1][a] \in rowStored[r + 1]

\* C7 as stated: every separation lies in [min_separation, eye_separation]
\* for the eye_separation passed by the caller.
C7_SeparationInRange ==
    sepOut # -1 =>
        /\ sepOut >= min_separation
        /\ sepOut <= sepIn.eye_separation

\* C7 amended: the same for every eye_separation >= min_separation.
C7_SeparationInRangeForValidEye ==
    (sepOut # -1 /\ sepIn.eye_separation >= min_separation) =>
        /\ sepOut >= min_separation
        /\ sepOut <= sepIn.eye_separation

\* a pixel whose rounded separation exceeded eye_separation and was clamped to it
C7_Witness ==
    /\ sepOut # -1
    /\ sepIn.eye_separation > min_separation
    /\ sepIn.d > 0
    /\ separationUnclamped(sepIn.d, sepIn.eye_separation, sepIn.depth_gamma, build.clamp)
           > sepIn.eye_separation
    /\ sepOut = sepIn.eye_separation

C13_OnlyOutputRowCarried ==
    /\ (pc = "build" /\ x = 0) => parent = reset(Width)
    /\ (pc \in {"row", "smooth"} /\ y >= 1) =>
          /\ rng = rngSeeded(rng)
          /\ \A a \in Cols :
                out_rgb[(y - 1) * Width + a]
                   = processScanline(y - 1, call, options, adjusted_depth, separation_map,
                                     out_rgb, rngSeeded(rng)).out_rgb[(y - 1) * Width + a]

\* where k steps along parent lead from x
RECURSIVE climb(_, _, _)
climb(p, a, k) == IF k = 0 THEN a ELSE climb(p, p[a], k - 1)

\* following parent from any element reaches a self-parented root in fewer
\* than n steps
isForest(p) ==
    \A a \in DOMAIN p :
        LET r == climb(p, a, Cardinality(DOMAIN p) - 1)
        IN  r \in DOMAIN p /\ p[r] = r

\* p and q group the elements in the same way
samePartition(p, q) ==
    /\ DOMAIN p = DOMAIN q
    /\ \A a \in DOMAIN p : \A b \in DOMAIN p :
          (climb(p, a, Cardinality(DOMAIN p)) = climb(p, b, Cardinality(DOMAIN p)))
             <=> (climb(q, a, Cardinality(DOMAIN q)) = climb(q, b, Cardinality(DOMAIN q)))

\* C14: after any sequence of reset, unite and find the parent pointers form
\* a forest, and a find call returns the root it started under and leaves
\* the grouping of the elements as it was.
C14_ForestAndFindKeepsClasses ==
    ufOp # NULL =>
        /\ isForest(parent)
        /\ ufOp.op = "find" =>
              /\ samePartition(ufOp.before, parent)
              /\ parent[ufOp.a] = ufOp.b
              /\ parent[ufOp.b] = ufOp.b

\* a find call that compressed a path of two links
C14_Witness ==
    /\ ufOp # NULL
    /\ ufOp.op = "find"
    /\ ufOp.before[ufOp.a] # ufOp.a
    /\ ufOp.before[ufOp.before[ufOp.a]] # ufOp.before[ufOp.a]
    /\ parent # ufOp.before
    /\ \E a \in DOMAIN parent : \E b \in DOMAIN parent :
          climb(parent, a, UFSize) # climb(parent, b, UFSize)

\* C9: a null Options pointer fails with a runtime error and no output:
\* SIRDSGenerator::generate with opt == nullptr fails and leaves out_rgb as
\* the caller passed it, and StereogramGenerator::create over null options
\* throws without having written a file.
C9_NullOptionsNoPartialOutput ==
    /\ (call # NULL /\ call.opt = NULL /\ pc # "idle") =>
          /\ pc = "crashed"
          /\ out_rgb = outBefore
    /\ (createOptions = NULL /\ createPc \notin {"idle", "entry"}) =>
          /\ createResult = "runtime_error"
          /\ files = {}

\* ------------------------------------------------------------------------
\* Properties of the depth map generator
\* ------------------------------------------------------------------------
\* C4: every triangle that straddles the near plane produced sub-triangles,
\* and each of them passed the projection check of processTriangle
\* (projectToNDC returned true for its three vertices).
C4_StraddlingTrianglesProjected ==
    \A k \in 1 .. Len(clipLog) :
        clipLog[k].straddles =>
            /\ clipLog[k].subTris > 0
            /\ clipLog[k].projected = clipLog[k].subTris

\* C5: when no pixel was covered, generate returns a map whose every entry
\* is depth_far.
C5_UncoveredMapIsDepthFar ==
    (depthPc = "returned" /\ \A i \in Pixels : zbuffer[i] = INF) =>
        \A i \in Pixels : depthRet.depth[i] = depthCall.depth_far

\* the fragments of a set of world triangles that passed the inside test;
\* they do not depend on any order
fragmentsOf(TS) ==
    LET cam == depthCall.cam
        aspect == aspectOf(Width, Height)
        fragsOfTris(tris) == UNION { insideFragments(tris[k], cam, aspect,
                                                     depthCall.ortho_scale) :
                                       k \in 1 .. Len(tris) }
    IN  UNION { fragsOfTris(clippedTris(tri, cam)) : tri \in TS }

\* the depths of the fragments of frags at pixel i
depthsAt(frags, i) == { f.z : f \in { g \in frags : g.idx = i } }

\* the world triangles processed so far
processedTris == { depthCall.mesh[k] : k \in 1 .. t }

closestWins ==
    depthPc \in {"triangles", "returned"} =>
        LET frags == fragmentsOf(processedTris)
        IN  \A i \in Pixels :
                LET zs == depthsAt(frags, i)
                IN  zbuffer[i] = IF zs = {} THEN INF ELSE SetMin(zs)

neverIncreases ==
    (depthPc = "triangles" /\ depthPc' = "triangles") =>
        \A i \in Pixels : zbuffer'[i] <= zbuffer[i]

\* C6: after any number of triangles every z-buffer entry is the minimum
\* depth over the inside-test fragments of the set of triangles processed
\* (infinity without one), which does not depend on their order, and no
\* entry increases when a triangle is processed.
C6_CloserWins == []closestWins /\ [][neverIncreases]_vars

\* two triangles were rasterized, the nearer one first, and at a pixel both
\* cover the entry is the depth of the nearer one
C6_Witness ==
    /\ depthPc = "returned"
    /\ t = 2
    /\ LET first == fragmentsOf({depthCall.mesh[1]})
           second == fragmentsOf({depthCall.mesh[2]})
       IN  \E i \in Pixels :
              /\ depthsAt(first, i) # {}
              /\ depthsAt(second, i) # {}
              /\ SetMin(depthsAt(first, i)) < SetMin(depthsAt(second, i))
              /\ zbuffer[i] = SetMin(depthsAt(first, i))
    /\ \E i \in Pixels : zbuffer[i] = INF

\* C11: every entry of the map generate returns lies between depth_far and
\* depth_near inclusive (finite numbers both), whatever the mesh covers.
C11_DepthWithinNearFar ==
    depthPc = "returned" =>
        \A i \in Pixels :
            /\ depthRet.depth[i] >= Min2(depthCall.depth_far, depthCall.depth_near)
            /\ depthRet.depth[i] <= Max2(depthCall.depth_far, depthCall.depth_near)

\* some pixel is covered
covered == \E i \in Pixels : isfinite(zbuffer[i])

\* C12: when a pixel is covered, every uncovered pixel gets depth_far, the
\* covered pixels of smallest z get depth_near, and among covered pixels a
\* smaller z never gets a smaller depth value.
C12_OrderReversingRemap ==
    (depthPc = "returned" /\ covered) =>
        LET zmin == SetMin({ zbuffer[i] : i \in Pixels })
        IN  \A i \in Pixels :
                /\ ~isfinite(zbuffer[i]) => depthRet.depth[i] = depthCall.depth_far
                /\ zbuffer[i] = zmin => depthRet.depth[i] = depthCall.depth_near
                /\ \A j \in Pixels :
                      (isfinite(zbuffer[i]) /\ isfinite(zbuffer[j])
                         /\ zbuffer[i] <= zbuffer[j]
                         /\ depthCall.depth_near >= depthCall.depth_far)
                      => depthRet.depth[i] >= depthRet.depth[j]

\* a returned map with uncovered pixels and covered pixels at two depths,
\* the nearer of which got the larger value
C12_Witness ==
    /\ depthPc = "returned"
    /\ \E i \in Pixels : ~isfinite(zbuffer[i]) /\ depthRet.depth[i] = depthCall.depth_far
    /\ \E i \in Pixels : \E j \in Pixels :
          /\ isfinite(zbuffer[i])
          /\ isfinite(zbuffer[j])
          /\ zbuffer[i] < zbuffer[j]
          /\ depthRet.depth[i] = depthCall.depth_near
          /\ depthRet.depth[i] > depthRet.depth[j]
          /\ depthRet.depth[j] > depthCall.depth_far

\* ------------------------------------------------------------------------
\* Properties of the orchestrator
\* ------------------------------------------------------------------------
\* C10: a create call that failed on the texture file has not generated the
\* depth map and has written neither output file.
C10_TextureFailureBeforeCore ==
    (createPc = "thrown" /\ createOptions # NULL /\ createOptions.meshReadable) =>
        /\ "DepthMapGenerator::generate" \notin createSteps
        /\ files = {}

\* the mesh file of the options loads, and so does the texture file if one
\* is named
filesLoad ==
    /\ createOptions # NULL
    /\ createOptions.meshReadable
    /\ (createOptions.texpath \in {"", "null"} \/ createOptions.textureReadable)

createdBoth ==
    /\ createPc = "returned"
    /\ createResult = "0"
    /\ files = {"_depth.png", "_sirds.png"}
    /\ {"DepthMapGenerator::generate", "SIRDSGenerator::generate"} \subseteq createSteps

floats(m) == Len(m.m_vectors)

\* C16: after every operation of the pipeline on the mesh, m_vectors holds
\* nine floats per counted triangle; transformMesh changes neither side, the
\* OBJ conversion builds one triangle per index triple, and the floor ramp
\* appends no triangle or two triangles (18 floats) and counts them
C16_MeshInvariant ==
    /\ floats(mesh) = 9 * mesh.m_num_triangles
    /\ meshOp.op = "transformMesh" =>
          /\ floats(mesh) = floats(meshOp.before)
          /\ mesh.m_num_triangles = meshOp.before.m_num_triangles
    /\ meshOp.op = "addFloorRampFacingCamera" =>
          \E k \in {0, 2} :
             /\ mesh.m_num_triangles = meshOp.before.m_num_triangles + k
             /\ floats(mesh) = floats(meshOp.before) + 9 * k
             /\ \A i \in 1 .. floats(meshOp.before) :
                   mesh.m_vectors[i] = meshOp.before.m_vectors[i]

\* a converted, transformed mesh that the floor ramp extended by two triangles
C16_Witness ==
    /\ meshOp.op = "addFloorRampFacingCamera"
    /\ meshOp.before.m_num_triangles >= 1
    /\ mesh.m_num_triangles = meshOp.before.m_num_triangles + 2
    /\ floats(mesh) = 9 * mesh.m_num_triangles


\* ------------------------------------------------------------------------
\* Properties of the focus estimate
\* ------------------------------------------------------------------------
\* the bin of a finite depth value: its value clamped to [0, 1], times 255,
\* rounded
binOf(d) == RoundQ(clamp(d, 0, Q) * (bins - 1))

\* how many finite entries of depth fall into bin b
inBin(depth, b) ==
    Cardinality({i \in 1 .. Len(depth) : isfinite(depth[i]) /\ binOf(depth[i]) = b})

\* the bins that hold a finite entry of depth
usedBins(depth) ==
    {binOf(depth[i]) : i \in {j \in 1 .. Len(depth) : isfinite(depth[j])}}

readsInside(r) == \A i \in r.reads : i >= 0 /\ i < Len(sample.texture)

\* C19: sampleBilinearTiled returns the same colour at (x, y) and at
\* (x + k * tw, y + m * th) for whole k and m, at (0, 0) and (tw, th) in
\* particular, and every texel index it reads lies inside the texture buffer
C19_WrapContinuity ==
    /\ sample.pc \in {"second", "done"} => readsInside(sample.a)
    /\ sample.pc = "done" =>
          /\ readsInside(sample.b)
          /\ sample.a.color = sample.b.color


\* ------------------------------------------------------------------------
\* Properties of the colour propagation
\* ------------------------------------------------------------------------
\* root c of row r is a foreground root whose left neighbour is in another
\* class
propagatesFromLeft(r, c) ==
    /\ c > 0
    /\ rowClass[r + 1][c] = c
    /\ adjusted_depth[r * Width + c] > options.foreground_threshold
    /\ rowClass[r + 1][c - 1] # c

\* C20: after applyColors on a row, the class of every foreground root whose
\* left neighbour belongs to another class carries the colour of that
\* neighbour
C20_PropagatedColourApplied ==
    (pc \in {"row", "smooth"} /\ y >= 1) =>
        \A c \in Cols :
            propagatesFromLeft(y - 1, c) =>
                \A a \in Cols :
                    rowClass[y][a] = c =>
                        out_rgb[(y - 1) * Width + a] = out_rgb[(y - 1) * Width + (c - 1)]

\* a root of finished row r that is foreground and has no left source: it is
\* column 0, or its left neighbour belongs to its own class
rootWithoutLeft(r, c) ==
    /\ rowClass[r + 1][c] = c
    /\ adjusted_depth[r * Width + c] > options.foreground_threshold
    /\ (c = 0 \/ rowClass[r + 1][c - 1] = c)

\* C21: a foreground root of a row y > 0 whose left-neighbour source is
\* unavailable takes the colour of the pixel directly above it (row y-1, same
\* column).
C21_AboveColourUsed ==
    (pc \in {"row", "smooth"} /\ y >= 2) =>
        \A c \in Cols :
            rootWithoutLeft(y - 1, c) =>
                out_rgb[(y - 1) * Width + c] = out_rgb[(y - 2) * Width + c]

\* buildUnions for column x of row r: the positions of the two eyes
stereoLeft(r, c) == c - separation_map[r * Width + c] \div 2

stereoRight(r, c) == stereoLeft(r, c) + separation_map[r * Width + c]

stereoInBounds(r, c) == stereoLeft(r, c) >= 0 /\ stereoRight(r, c) < Width

C23_ForegroundCohesion ==
    (pc \in {"row", "smooth"} /\ y >= 1) =>
        \A c \in Cols :
            (c > 0 /\ adjusted_depth[(y - 1) * Width + c] > options.foreground_threshold) =>
                rowClass[y][c - 1] = rowClass[y][c]

\* Options::occlusion_epsilon, the depth tolerance of the occlusion gate: 0.02
\* in units of 1/Q
occlusion_epsilon == 20

\* the depths at both eye positions of column c of row r are nearer than the
\* depth at c by more than occlusion_epsilon
occluded(r, c) ==
    /\ stereoInBounds(r, c)
    /\ adjusted_depth[r * Width + stereoLeft(r, c)]
           > adjusted_depth[r * Width + c] + occlusion_epsilon
    /\ adjusted_depth[r * Width + stereoRight(r, c)]
           > adjusted_depth[r * Width + c] + occlusion_epsilon

\* C24: a column whose two eye positions are both nearer than the column by
\* more than occlusion_epsilon does not unite left with right; every other
\* column whose eye positions lie inside the image does.
C24_OcclusionGate ==
    [][(pc = "build" /\ x < Width /\ stereoInBounds(y, x)) =>
          LET pair == {stereoLeft(y, x), stereoRight(y, x)}
          IN  IF occluded(y, x)
              THEN pair \notin (links' \ links)
              ELSE pair \in links']_vars

\* the 3x3 neighbourhood of pixel i of an image of the given width
neighbourhood(i, width) ==
    { i + dy * width + dx : dx \in {-1, 0, 1}, dy \in {-1, 0, 1} }

\* orig * (1 - a) + mean * a with a = 1 / max(1, smoothWeight), mean = sum9 / 9
blend(orig, sum9, smoothWeight) ==
    LET w == Max2(Q, smoothWeight)
    IN  (orig * (w - Q) * 9 + sum9 * Q) \div (9 * w)

RECURSIVE sumOver(_, _, _)
sumOver(buf, c, pixels) ==
    IF pixels = {} THEN 0
    ELSE LET j == CHOOSE k \in pixels : TRUE
         IN  buf[j][c] + sumOver(buf, c, pixels \ {j})

\* C25: the edge smoothing of generate replaces each channel of every interior
\* pixel with depth above smoothThreshold by orig*(1-a) + mean*a (to within
\* the rounding of the conversion), a = 1/max(1, smoothWeight), mean the
\* average of its 3x3 neighbourhood; the result lies between the minimum and
\* the maximum of the neighbourhood, and a uniform neighbourhood keeps its
\* colour.
C25_SmoothingIsBlend ==
    [][(pc = "smooth" /\ pc' = "done") =>
          \A i \in Pixels :
              smoothed(adjusted_depth, options.smoothThreshold, i) =>
                  \A c \in 1 .. 3 :
                      LET n == { out_rgb[j][c] : j \in neighbourhood(i, Width) }
                          b == blend(out_rgb[i][c],
                                     sumOver(out_rgb, c, neighbourhood(i, Width)),
                                     options.smoothWeight)
                      IN  /\ out_rgb'[i][c] \in (b - 1) .. (b + 1)
                          /\ out_rgb'[i][c] >= SetMin(n)
                          /\ out_rgb'[i][c] <= SetMax(n)]_vars

\* ------------------------------------------------------------------------
\* SIRDSGenerator::applyEdgeSmoothing on images of any size
\* ------------------------------------------------------------------------
MaxSmoothSide == 4

\* an image of width x height pixels whose colours differ from pixel to pixel
smoothBuffer(width, height, k) ==
    [i \in 0 .. (width * height - 1) |->
        LET v == ((i + 1) * (37 * k + 11)) % 256
        IN  <<v, (v + 85) % 256, (v + 170) % 256>>]

\* a depth map with the pixels of one parity, all pixels or no pixel in front
smoothDepth(width, height, front) ==
    [i \in 0 .. (width * height - 1) |-> IF (i % 2) \in front THEN Q ELSE 0]

applyEdgeSmoothing_call ==
    /\ smooth # NULL
    /\ ~smooth.done
    /\ \E impl \in CastImpls :
          smooth' = [smooth EXCEPT
              !.done = TRUE,
              !.after = applyEdgeSmoothingSized(smooth.adjusted_depth, smooth.before,
                                                smooth.width, smooth.height,
                                                smooth.opts, impl)]
    /\ UNCHANGED <<sirdsVars, sepVars, depthVars, createVars, ufOp, meshVars, pureVars,
                   guiVars>>

InitSmooth ==
    /\ build = Unresolved
    /\ sirdsIdle
    /\ sepIdle
    /\ depthIdle
    /\ createIdle
    /\ ufOp = NULL
    /\ meshIdle
    /\ pureIdle
    /\ guiIdle
    /\ \E width \in 1 .. MaxSmoothSide : \E height \in 1 .. MaxSmoothSide :
       \E k \in 0 .. 3 : \E front \in SUBSET {0, 1} :
       \E opts \in {OptionsDefault, OptionsSoft} :
          smooth = [width |-> width, height |-> height,
                    adjusted_depth |-> smoothDepth(width, height, front),
                    before |-> smoothBuffer(width, height, k),
                    opts |-> opts, done |-> FALSE,
                    after |-> smoothBuffer(width, height, k)]

NextSmooth == applyEdgeSmoothing_call

SpecSmooth == InitSmooth /\ [][NextSmooth]_vars

\* pixel i lies in the first or last row or column
onBorder(i, width, height) ==
    \/ i % width \in {0, width - 1}
    \/ i \div width \in {0, height - 1}

\* C30: edge smoothing leaves unchanged every pixel of the first and last row
\* and column and every pixel whose adjusted depth is not above
\* smoothThreshold; it keeps the size of the buffer, and changes no pixel of
\* an image narrower or shorter than 3 pixels.
C30_SmoothingFrame ==
    (smooth # NULL /\ smooth.done) =>
        /\ DOMAIN smooth.after = DOMAIN smooth.before
        /\ \A i \in DOMAIN smooth.before :
              (\/ onBorder(i, smooth.width, smooth.height)
               \/ smooth.adjusted_depth[i] <= smooth.opts.smoothThreshold) =>
                  smooth.after[i] = smooth.before[i]
        /\ (smooth.width < 3 \/ smooth.height < 3) => smooth.after = smooth.before

\* a call that changed a pixel of an image with an interior pixel left behind
C30_Witness ==
    /\ smooth # NULL
    /\ smooth.done
    /\ smooth.after # smooth.before
    /\ \E i \in DOMAIN smooth.before :
          /\ ~onBorder(i, smooth.width, smooth.height)
          /\ smooth.after[i] = smooth.before[i]
          /\ smooth.adjusted_depth[i] <= smooth.opts.smoothThreshold

\* ------------------------------------------------------------------------
\* The GUI applications (gui/main.cpp, andriod_opengl/main.cpp): the frames
\* of the UI thread and the std::async render tasks
\* ------------------------------------------------------------------------
MaxRenders == 2

MeshPaths == {"good.stl", "bad.stl"}

TexPaths == {"tex.png", "bad.png"}

EyeSeps == {160, 62}

\* the files read_stl, OBJToSTL::convert and loadTexture can read
readable(path) == path \in {"good.stl", "tex.png"}

\* Options as constructed: Options.h
OptionsNew == [stlpath |-> "", texpath |-> "", outprefix |-> "out", eye_sep |-> 160]

\* fs::path(opt->stlpath).replace_extension("")
replace_extension(path) ==
    CASE path = "good.stl" -> "good"
      [] path = "bad.stl" -> "bad"
      [] OTHER -> path

\* a capture that shares the caller's Options object instead of copying it
make_shared_alias(h, src) == [heap |-> h, addr |-> src]

\* std::make_shared<Options>(*opt): a new object holding a copy of h[src]
make_shared(h, src) ==
    LET a == Cardinality(DOMAIN h)
    IN  [heap |-> h @@ (a :> h[src]), addr |-> a]

\* a Render button that is enabled while a render is running
renderEnabledAlways(opt, is_rendering) ==
    ~(opt.stlpath = "" \/ opt.texpath = "")

\* BeginDisabled(disabled_render || g_is_rendering): the Render button is live
renderEnabled(opt, is_rendering) ==
    ~((opt.stlpath = "" \/ opt.texpath = "") \/ is_rendering)

Tasks == DOMAIN workers

\* the tasks launched whose future has not been collected by get()
inFlight == { w \in Tasks : workers[w].pc # "collected" }

\* task w is running and is yet to write the rendered paths
willWritePaths(w) ==
    \/ workers[w].pc \in {"generating", "created"}
    \/ workers[w].pc = "meshLoaded" /\ readable(heap[workers[w].o].texpath)
    \/ /\ workers[w].pc = "start"
       /\ readable(heap[workers[w].o].stlpath)
       /\ readable(heap[workers[w].o].texpath)

\* task w is running and is yet to write g_render_error_msg
willWriteMsg(w) ==
    /\ variant = "android"
    /\ \/ workers[w].pc = "meshLoaded" /\ ~readable(heap[workers[w].o].texpath)
       \/ /\ workers[w].pc = "start"
          /\ \/ ~readable(heap[workers[w].o].stlpath)
             \/ ~readable(heap[workers[w].o].texpath)

uiVars ==
    <<uiPc, viewport_open, popup_open, g_prev_render>>

\* DrawInspector, the user touching nothing
DrawInspector_idle ==
    /\ uiPc = "inspector"
    /\ ~crashed
    /\ uiPc' = "viewport"
    /\ UNCHANGED <<variant, heap, viewport_open, popup_open, crashed, g_is_rendering,
                   g_has_result, g_prev_render, g_render_error_pending, g_render_future,
                   g_rendered_image_path, g_rendered_depth_path, g_render_error_msg,
                   workers, racyReads>>
    /\ UNCHANGED <<sirdsVars, sepVars, depthVars, createVars, ufOp, meshVars, pureVars, smooth>>

\* DrawInspector, the user turning the eye_sep knob
DrawInspector_edit ==
    /\ uiPc = "inspector"
    /\ ~crashed
    /\ ~popup_open
    /\ \E e \in EyeSeps \ {heap[0].eye_sep} :
          heap' = [heap EXCEPT ![0].eye_sep = e]
    /\ uiPc' = "viewport"
    /\ UNCHANGED <<variant, viewport_open, popup_open, crashed, g_is_rendering,
                   g_has_result, g_prev_render, g_render_error_pending, g_render_future,
                   g_rendered_image_path, g_rendered_depth_path, g_render_error_msg,
                   workers, racyReads>>
    /\ UNCHANGED <<sirdsVars, sepVars, depthVars, createVars, ufOp, meshVars, pureVars, smooth>>

\* DrawInspector, the user clicking Reset
DrawInspector_reset ==
    /\ uiPc = "inspector"
    /\ ~crashed
    /\ ~popup_open
    /\ heap' = [heap EXCEPT ![0] = [OptionsNew EXCEPT !.stlpath = heap[0].stlpath,
                                                      !.texpath = heap[0].texpath]]
    /\ uiPc' = "viewport"
    /\ UNCHANGED <<variant, viewport_open, popup_open, crashed, g_is_rendering,
                   g_has_result, g_prev_render, g_render_error_pending, g_render_future,
                   g_rendered_image_path, g_rendered_depth_path, g_render_error_msg,
                   workers, racyReads>>
    /\ UNCHANGED <<sirdsVars, sepVars, depthVars, createVars, ufOp, meshVars, pureVars, smooth>>

\* DrawInspector, the user clicking Render: the task is launched on a copy of
\* the Options
DrawInspector_render ==
    /\ uiPc = "inspector"
    /\ ~crashed
    /\ ~popup_open
    /\ renderEnabled(heap[0], g_is_rendering)
    /\ Len(workers) < MaxRenders
    /\ g_is_rendering' = TRUE
    /\ g_has_result' = FALSE
    /\ LET live == [heap[0] EXCEPT !.outprefix = replace_extension(heap[0].stlpath)]
           o == make_shared([heap EXCEPT ![0] = live], 0)
       IN  /\ heap' = o.heap
           /\ workers' = Append(workers,
                  [pc |-> "start", o |-> o.addr, atClick |-> live,
                   used |-> [stlpath |-> "?", texpath |-> "?", outprefix |-> "?",
                             eye_sep |-> -1],
                   result |-> "none"])
    /\ g_render_future' = Len(workers) + 1
    /\ uiPc' = "viewport"
    /\ UNCHANGED <<variant, viewport_open, popup_open, crashed, g_prev_render,
                   g_render_error_pending, g_rendered_image_path, g_rendered_depth_path,
                   g_render_error_msg, racyReads>>
    /\ UNCHANGED <<sirdsVars, sepVars, depthVars, createVars, ufOp, meshVars, pureVars, smooth>>

\* The rest of the frame up to HandleRenderCompletion: the View menu, the
\* g_prev_render test (android), DrawViewport and the "Render error" popup
\* (android).  toggle, close and ok are the user's clicks of this frame.
DrawViewport_frame ==
    /\ uiPc = "viewport"
    /\ ~crashed
    /\ \E toggle \in BOOLEAN : \E close \in BOOLEAN : \E ok \in BOOLEAN :
       LET menu == IF toggle THEN ~viewport_open ELSE viewport_open
           open == IF variant = "android" /\ g_prev_render # g_is_rendering
                      /\ g_is_rendering
                   THEN TRUE ELSE menu
           popup == variant = "android" /\ open
                        /\ (popup_open \/ g_render_error_pending)
           read == (IF open /\ g_has_result
                       /\ \E w \in Tasks : willWritePaths(w)
                    THEN {"g_rendered_image_path", "g_rendered_depth_path"} ELSE {})
                   \cup
                   (IF popup /\ \E w \in Tasks : willWriteMsg(w)
                    THEN {"g_render_error_msg"} ELSE {})
       IN  /\ (toggle \/ close) => ~popup_open
           /\ close => open
           /\ ok => popup
           /\ viewport_open' = (open /\ ~close)
           /\ g_prev_render' = IF variant = "android" THEN g_is_rendering
                               ELSE g_prev_render
           /\ g_render_error_pending' =
                  IF variant = "android" /\ open THEN FALSE ELSE g_render_error_pending
           /\ popup_open' = (IF variant = "android" /\ open THEN popup /\ ~ok
                             ELSE popup_open)
           /\ racyReads' = racyReads \cup read
    /\ uiPc' = "completion"
    /\ UNCHANGED <<variant, heap, crashed, g_is_rendering, g_has_result, g_render_future,
                   g_rendered_image_path, g_rendered_depth_path, g_render_error_msg,
                   workers>>
    /\ UNCHANGED <<sirdsVars, sepVars, depthVars, createVars, ufOp, meshVars, pureVars, smooth>>

\* HandleRenderCompletion while there is nothing to collect
HandleRenderCompletion_wait ==
    /\ uiPc = "completion"
    /\ ~crashed
    /\ IF g_is_rendering /\ g_render_future # 0
       THEN workers[g_render_future].pc # "ready"
       ELSE TRUE
    /\ uiPc' = "dialogs"
    /\ UNCHANGED <<variant, heap, viewport_open, popup_open, crashed, g_is_rendering,
                   g_has_result, g_prev_render, g_render_error_pending, g_render_future,
                   g_rendered_image_path, g_rendered_depth_path, g_render_error_msg,
                   workers, racyReads>>
    /\ UNCHANGED <<sirdsVars, sepVars, depthVars, createVars, ufOp, meshVars, pureVars, smooth>>

\* HandleRenderCompletion with the future ready: get() returns the task's
\* value; loaded tells whether LoadTextureFromFile read both images
HandleRenderCompletion_get ==
    /\ uiPc = "completion"
    /\ ~crashed
    /\ g_is_rendering
    /\ g_render_future # 0
    /\ workers[g_render_future].pc = "ready"
    /\ workers[g_render_future].result \in {"true", "false"}
    /\ \E loaded \in BOOLEAN :
          /\ g_has_result' = (workers[g_render_future].result = "true" /\ loaded)
          /\ racyReads' = racyReads \cup
                 (IF workers[g_render_future].result = "true"
                     /\ \E w \in Tasks : willWritePaths(w)
                  THEN {"g_rendered_image_path", "g_rendered_depth_path"} ELSE {})
    /\ g_is_rendering' = FALSE
    /\ workers' = [workers EXCEPT ![g_render_future].pc = "collected"]
    /\ g_render_future' = 0
    /\ uiPc' = "dialogs"
    /\ UNCHANGED <<variant, heap, viewport_open, popup_open, crashed, g_prev_render,
                   g_render_error_pending, g_rendered_image_path, g_rendered_depth_path,
                   g_render_error_msg>>
    /\ UNCHANGED <<sirdsVars, sepVars, depthVars, createVars, ufOp, meshVars, pureVars, smooth>>

\* HandleRenderCompletion with the future holding an exception: get() rethrows
\* it on the UI thread, where nothing catches it
HandleRenderCompletion_rethrow ==
    /\ uiPc = "completion"
    /\ ~crashed
    /\ g_is_rendering
    /\ g_render_future # 0
    /\ workers[g_render_future].pc = "ready"
    /\ workers[g_render_future].result = "exception"
    /\ workers' = [workers EXCEPT ![g_render_future].pc = "collected"]
    /\ g_render_future' = 0
    /\ crashed' = TRUE
    /\ UNCHANGED <<variant, heap, uiPc, viewport_open, popup_open, g_is_rendering,
                   g_has_result, g_prev_render, g_render_error_pending,
                   g_rendered_image_path, g_rendered_depth_path, g_render_error_msg,
                   racyReads>>
    /\ UNCHANGED <<sirdsVars, sepVars, depthVars, createVars, ufOp, meshVars, pureVars, smooth>>

\* the file dialogs at the end of the frame: the user may pick a mesh or a
\* texture
FileDialogs_frame ==
    /\ uiPc = "dialogs"
    /\ ~crashed
    /\ \/ UNCHANGED heap
       \/ /\ ~popup_open
          /\ \E path \in MeshPaths \ {heap[0].stlpath} :
                heap' = [heap EXCEPT ![0].stlpath = path]
       \/ /\ ~popup_open
          /\ \E path \in TexPaths \ {heap[0].texpath} :
                heap' = [heap EXCEPT ![0].texpath = path]
    /\ uiPc' = "inspector"
    /\ UNCHANGED <<variant, viewport_open, popup_open, crashed, g_is_rendering,
                   g_has_result, g_prev_render, g_render_error_pending, g_render_future,
                   g_rendered_image_path, g_rendered_depth_path, g_render_error_msg,
                   workers, racyReads>>
    /\ UNCHANGED <<sirdsVars, sepVars, depthVars, createVars, ufOp, meshVars, pureVars, smooth>>

\* what the task does when create throws: the desktop lambda lets the
\* exception into the future, the android lambda catches it and writes
\* g_render_error_msg
thrown(w, what) ==
    IF variant = "android"
    THEN /\ workers' = [workers EXCEPT ![w].pc = "caught"]
         /\ g_render_error_msg' = what
    ELSE /\ workers' = [workers EXCEPT ![w].pc = "ready", ![w].result = "exception"]
         /\ UNCHANGED g_render_error_msg

\* StereogramGenerator::create up to the loaded mesh
create_readMesh(w) ==
    /\ workers[w].pc = "start"
    /\ ~crashed
    /\ LET stlpath == heap[workers[w].o].stlpath
       IN  IF readable(stlpath)
           THEN /\ workers' = [workers EXCEPT ![w].pc = "meshLoaded",
                                              ![w].used.stlpath = stlpath]
                /\ UNCHANGED g_render_error_msg
           ELSE thrown(w, <<"Failed to read STL: ", stlpath>>)
    /\ UNCHANGED <<variant, heap, uiVars, crashed, g_is_rendering, g_has_result,
                   g_render_error_pending, g_render_future, g_rendered_image_path,
                   g_rendered_depth_path, racyReads>>
    /\ UNCHANGED <<sirdsVars, sepVars, depthVars, createVars, ufOp, meshVars, pureVars, smooth>>

\* create from the depth map to the call of SIRDSGenerator::generate, which
\* stores its Options argument in the static SIRDSGenerator::options
create_loadTexture(w) ==
    /\ workers[w].pc = "meshLoaded"
    /\ ~crashed
    /\ LET texpath == heap[workers[w].o].texpath
       IN  IF readable(texpath)
           THEN /\ workers' = [workers EXCEPT
                       ![w].pc = "generating",
                       ![w].used.texpath = texpath,
                       ![w].used.eye_sep = heap[workers[w].o].eye_sep]
                /\ UNCHANGED g_render_error_msg
           ELSE thrown(w, <<"Failed to load texture ", texpath>>)
    /\ UNCHANGED <<variant, heap, uiVars, crashed, g_is_rendering, g_has_result,
                   g_render_error_pending, g_render_future, g_rendered_image_path,
                   g_rendered_depth_path, racyReads>>
    /\ UNCHANGED <<sirdsVars, sepVars, depthVars, createVars, ufOp, meshVars, pureVars, smooth>>

\* generate returns, saveStereogram writes the image, create returns 0
create_return0(w) ==
    /\ workers[w].pc = "generating"
    /\ ~crashed
    /\ workers' = [workers EXCEPT ![w].pc = "created",
                                  ![w].used.outprefix = heap[workers[w].o].outprefix]
    /\ UNCHANGED <<variant, heap, uiVars, crashed, g_is_rendering, g_has_result,
                   g_render_error_pending, g_render_future, g_rendered_image_path,
                   g_rendered_depth_path, g_render_error_msg, racyReads>>
    /\ UNCHANGED <<sirdsVars, sepVars, depthVars, createVars, ufOp, meshVars, pureVars, smooth>>

\* the lambda after create returned 0: the two assignments to the paths
lambda_paths(w) ==
    /\ workers[w].pc = "created"
    /\ ~crashed
    /\ g_rendered_image_path' = <<heap[workers[w].o].outprefix, "_sirds.png">>
    /\ g_rendered_depth_path' = <<heap[workers[w].o].outprefix, "_depth.png">>
    /\ workers' = [workers EXCEPT ![w].pc = "returning", ![w].result = "true"]
    /\ UNCHANGED <<variant, heap, uiVars, crashed, g_is_rendering, g_has_result,
                   g_render_error_pending, g_render_future, g_render_error_msg, racyReads>>
    /\ UNCHANGED <<sirdsVars, sepVars, depthVars, createVars, ufOp, meshVars, pureVars, smooth>>

\* the android catch block after the message: g_render_error_pending = true
lambda_pending(w) ==
    /\ workers[w].pc = "caught"
    /\ ~crashed
    /\ g_render_error_pending' = TRUE
    /\ workers' = [workers EXCEPT ![w].pc = "returning", ![w].result = "false"]
    /\ UNCHANGED <<variant, heap, uiVars, crashed, g_is_rendering, g_has_result,
                   g_render_future, g_rendered_image_path, g_rendered_depth_path,
                   g_render_error_msg, racyReads>>
    /\ UNCHANGED <<sirdsVars, sepVars, depthVars, createVars, ufOp, meshVars, pureVars, smooth>>

\* the lambda returns: the future becomes ready
lambda_return(w) ==
    /\ workers[w].pc = "returning"
    /\ ~crashed
    /\ workers' = [workers EXCEPT ![w].pc = "ready"]
    /\ UNCHANGED <<variant, heap, uiVars, crashed, g_is_rendering, g_has_result,
                   g_render_error_pending, g_render_future, g_rendered_image_path,
                   g_rendered_depth_path, g_render_error_msg, racyReads>>
    /\ UNCHANGED <<sirdsVars, sepVars, depthVars, createVars, ufOp, meshVars, pureVars, smooth>>

\* main up to the first frame: gui/main.cpp starts with the viewport open,
\* andriod_opengl/main.cpp with the viewport closed
InitGui ==
    /\ build = Unresolved
    /\ sirdsIdle
    /\ sepIdle
    /\ depthIdle
    /\ createIdle
    /\ ufOp = NULL
    /\ meshIdle
    /\ pureIdle
    /\ smooth = NULL
    /\ variant \in {"desktop", "android"}
    /\ heap = (0 :> OptionsNew)
    /\ uiPc = "inspector"
    /\ viewport_open = (variant = "desktop")
    /\ popup_open = FALSE
    /\ crashed = FALSE
    /\ g_is_rendering = FALSE
    /\ g_has_result = FALSE
    /\ g_prev_render = FALSE
    /\ g_render_error_pending = FALSE
    /\ g_render_future = 0
    /\ g_rendered_image_path = << >>
    /\ g_rendered_depth_path = << >>
    /\ g_render_error_msg = << >>
    /\ workers = << >>
    /\ racyReads = {}

\* one step of the UI thread
NextFrame ==
    \/ DrawInspector_idle
    \/ DrawInspector_edit
    \/ DrawInspector_reset
    \/ DrawInspector_render
    \/ DrawViewport_frame
    \/ HandleRenderCompletion_wait
    \/ HandleRenderCompletion_get
    \/ HandleRenderCompletion_rethrow
    \/ FileDialogs_frame

\* one step of render task w
NextTask(w) ==
    \/ create_readMesh(w)
    \/ create_loadTexture(w)
    \/ create_return0(w)
    \/ lambda_paths(w)
    \/ lambda_pending(w)
    \/ lambda_return(w)

NextGui ==
    \/ NextFrame
    \/ \E w \in Tasks : NextTask(w)

SpecGui == InitGui /\ [][NextGui]_vars

\* the main loop runs frame after frame, and the thread of every std::async
\* task is scheduled until its lambda returns
SpecGuiFair ==
    /\ SpecGui
    /\ WF_vars(NextFrame)
    /\ \A w \in 1 .. MaxRenders : WF_vars(w \in Tasks /\ NextTask(w))

\* C26: every render the GUI starts ends with g_is_rendering back to false
\* and the application still running, whether the pipeline succeeds or fails.
C26_RenderCompletes == g_is_rendering ~> (~g_is_rendering /\ ~crashed)

\* the static SIRDSGenerator::options is being used by these tasks
generating == { w \in Tasks : workers[w].pc = "generating" }

atMostOneInFlight ==
    /\ Cardinality(inFlight) <= 1
    /\ inFlight # {} => g_is_rendering
    /\ Cardinality(generating) <= 1
    /\ g_is_rendering => ~g_has_result

launchedWhileIdle == Len(workers') > Len(workers) => ~g_is_rendering

\* C27: at most one render task is in flight at any time: a task is launched
\* only while g_is_rendering is false, g_is_rendering is true from the launch
\* until HandleRenderCompletion has collected the future, no two tasks are
\* inside SIRDSGenerator::generate together, and g_has_result is false
\* whenever g_is_rendering is true.
C27_OneRenderInFlight == []atMostOneInFlight /\ [][launchedWhileIdle]_vars

\* a second render running after the first one was collected
C27_Witness ==
    /\ Len(workers) >= 2
    /\ workers[1].pc = "collected"
    /\ workers[2].pc = "generating"
    /\ g_is_rendering

\* C28: the UI thread never reads g_rendered_image_path, g_rendered_depth_path
\* or g_render_error_msg while a running render task is yet to write it.
C28_NoRacyRead == racyReads = {}

\* every Options field task w has read so far has the value it had at the click
usedSnapshot(w) ==
    /\ workers[w].used.stlpath \in {"?", workers[w].atClick.stlpath}
    /\ workers[w].used.texpath \in {"?", workers[w].atClick.texpath}
    /\ workers[w].used.outprefix \in {"?", workers[w].atClick.outprefix}
    /\ workers[w].used.eye_sep \in {-1, workers[w].atClick.eye_sep}

\* C29: each render works on a snapshot of the Options taken when Render is
\* clicked: what the user changes in the live Options afterwards does not
\* reach the parameters, input paths or output prefix of the render, and the
\* pipeline does not modify the Options it was given.
C29_SnapshotOptions ==
    \A w \in Tasks :
        /\ usedSnapshot(w)
        /\ heap[workers[w].o] = workers[w].atClick

\* a render that has used every field while the live Options had changed in
\* path and in value since the click
C29_Witness ==
    \E w \in Tasks :
        /\ workers[w].pc = "created"
        /\ heap[0].stlpath # workers[w].atClick.stlpath
        /\ heap[0].eye_sep # workers[w].atClick.eye_sep
        /\ workers[w].used.outprefix = workers[w].atClick.outprefix

====
